---- MODULE Spec2Model ----
(***************************************************************************)
(* A model of the employeest backend (src/api): the permission policy of   *)
(* the Project, Task, WorkLog, Team and TeamMember view sets and the Task  *)
(* status transitions with their TaskHistory log.                          *)
(*                                                                         *)
(* Every table of the database is a function from the primary keys of its  *)
(* rows to the rows.  Every request handler is an operator that maps the   *)
(* current database and a request to a Result: the response code and the   *)
(* database after the request.  The actions apply the handlers.            *)
(***************************************************************************)
EXTENDS Integers, Sequences, FiniteSets, TLC

VARIABLES
    projects,   \* Project rows: id -> [owner, managers, status, team]
    tasks,      \* Task rows: id -> [project, parent_task, name, status, ...]
    history,    \* TaskHistory rows, in the order of their creation
    worklogs,   \* WorkLog rows: id -> [user, task, project]
    teams,      \* Team rows: id -> [owner, name]
    members,    \* TeamMember rows: id -> [user, team, role]
    comments,   \* TaskComment rows: id -> [task, user, comment]
    tokens,     \* Token rows: key -> user
    nextId,     \* the next primary key of every table (keys are never reused)
    now,        \* the clock, in days
    response    \* the last request and the response it got

vars == <<projects, tasks, history, worklogs, teams, members, comments, tokens, nextId,
          now, response>>

----------------------------------------------------------------------------
(* Bounds of the model *)

MaxProjects == 2
MaxTasks == 2
MaxHistory == 3
MaxWorkLogs == 2
MaxTeams == 2
MaxMembers == 3
MaxComments == 2
MaxTokens == 2
MaxClock == 2

----------------------------------------------------------------------------
(* Values *)

\* A null column (None) and a field the payload does not hold.
None == -1
Omit == -2
NoUser == "none"
NoText == "null"
OmitUser == "omit"
OmitSet == {"omit"}
OmitIds == {Omit}

\* The request carries no valid credential.
Anon == "anon"

\* The users: registration and the admin tooling create them; their role and
\* their staff flag are not writable through the API.
Users == {"u1", "u2", "u3", "u4"}

role(u) == CASE u = "u1" -> "owner"
             [] u = "u4" -> "admin"
             [] OTHER    -> "employee"

is_staff(u) == u = "u3"

ProjectStatus == {"draft", "active", "on_hold", "completed"}
TaskStatus == {"TODO", "IN_PROGRESS", "in_review", "DONE", "CANCELLED"}
TeamRole == {"pm", "member", "lead"}

SAFE_METHODS == {"GET", "HEAD", "OPTIONS"}

\* str() of an integer column, None included.
DigitStr == <<"0", "1", "2", "3", "4", "5", "6", "7", "8", "9">>
Str(n) == IF n = None THEN "None" ELSE DigitStr[n + 1]

\* str() of a user column: a User prints its username, None prints None.
StrUser(u) == IF u = NoUser THEN "None" ELSE u

\* str() of the serialized (nested) user of TaskSerializer.data.
StrUserData(u) == IF u = NoUser THEN "None" ELSE "{'username': '" \o u \o "'}"

\* str() of a Task object (models.Task.__str__), None prints None.
StrTask(t) == IF t = None THEN "None" ELSE "Task " \o Str(t)

\* str() of a date column as serialized and as a date object: both print the
\* ISO date.
StrDate(d) == IF d = None THEN "None" ELSE "2025-12-0" \o Str(d)

----------------------------------------------------------------------------
(* Results of a handler *)

\* The response `code` with the database as it is and no call of the chart
\* renderer; charts holds what get_chart_url is called with, call by call.
Result(code) ==
    [code |-> code, projects |-> projects, tasks |-> tasks, history |-> history,
     worklogs |-> worklogs, teams |-> teams, members |-> members, comments |-> comments,
     tokens |-> tokens, nextId |-> nextId, charts |-> << >>]

\* The request is authenticated (permissions.IsAuthenticated).
IsAuthenticated(actor) == actor \in Users

\* The rows of function f left after the keys in gone are deleted.
Without(f, gone) == [k \in DOMAIN f \ gone |-> f[k]]

\* The rows of sequence s (TaskHistory) whose task is not in gone.
RECURSIVE SelectRows(_, _)
SelectRows(s, gone) ==
    IF s = <<>> THEN <<>>
    ELSE IF Head(s).task \in gone THEN SelectRows(Tail(s), gone)
    ELSE <<Head(s)>> \o SelectRows(Tail(s), gone)

----------------------------------------------------------------------------
(* Cascading deletes (on_delete=CASCADE of the models) *)

\* The tasks deleted with the tasks in S: their subtasks, at any depth.
RECURSIVE Subtasks(_)
Subtasks(S) ==
    LET more == S \cup {t \in DOMAIN tasks : tasks[t].parent_task \in S}
    IN IF more = S THEN S ELSE Subtasks(more)

\* The database after the tasks in S are deleted: with them go their
\* subtasks, their history rows, their comments and their work logs.
DeleteTasks(r, S) ==
    LET gone == Subtasks(S)
    IN [r EXCEPT
          !.tasks = Without(tasks, gone),
          !.history = SelectRows(history, gone),
          !.comments = Without(comments, {c \in DOMAIN comments : comments[c].task \in gone}),
          !.worklogs = Without(worklogs, {w \in DOMAIN worklogs : worklogs[w].task \in gone})]

\* The database after project p is deleted: with it go its tasks and its
\* work logs.
DeleteProject(r, p) ==
    LET own == {t \in DOMAIN tasks : tasks[t].project = p}
        r1 == DeleteTasks(r, own)
    IN [r1 EXCEPT
          !.projects = Without(projects, {p}),
          !.worklogs = Without(r1.worklogs,
                               {w \in DOMAIN r1.worklogs : r1.worklogs[w].project = p})]

----------------------------------------------------------------------------
(* permissions.py *)

IsProjectOwner(actor, obj) == obj.owner = actor

\* The permission of the safe methods for every method: staff may write.
IsAssigneeOrProjectOwnerOrStaff(actor, method, obj) ==
    \/ projects[obj.project].owner = actor
    \/ obj.assignee = actor
    \/ is_staff(actor)

IsAssigneeOrProjectOwner(actor, method, obj) ==
    IF method \in SAFE_METHODS
    THEN \/ projects[obj.project].owner = actor
         \/ obj.assignee = actor
         \/ is_staff(actor)
    ELSE \/ projects[obj.project].owner = actor
         \/ obj.assignee = actor

IsWorkLogOwner(actor, obj) == obj.user = actor

\* obj is a Team (it has an owner) or a TeamMember (its team has one).
IsTeamOwnerOrReadOnly(actor, method, obj) ==
    IF method \in SAFE_METHODS THEN TRUE
    ELSE IF "owner" \in DOMAIN obj THEN obj.owner = actor
    ELSE IF "team" \in DOMAIN obj THEN teams[obj.team].owner = actor
    ELSE FALSE

IsTeamMemberUserOrTeamOwner(actor, method, obj) ==
    IF method \in SAFE_METHODS THEN TRUE
    ELSE IF obj.user = actor THEN TRUE
    ELSE IF teams[obj.team].owner = actor THEN TRUE
    ELSE FALSE

IsCommentOwnerOrReadOnly(actor, method, obj) ==
    IF method \in SAFE_METHODS THEN TRUE ELSE obj.user = actor

----------------------------------------------------------------------------
(* ProjectViewSet *)

IsProjectManagerOrOwner(actor, obj) ==
    IF obj.owner = actor THEN TRUE ELSE actor \in obj.managers

\* The project's actions guarded by IsProjectManagerOrOwner.
ProjectPermissionsManagers(action, actor, obj) ==
    IF action \in {"update", "partial_update", "destroy"}
    THEN IsProjectManagerOrOwner(actor, obj)
    ELSE IF action \in {"task_status_chart", "project_velocity_chart"}
    THEN IsProjectManagerOrOwner(actor, obj)
    ELSE TRUE

\* The object permissions of a Project action, after IsAuthenticated.
ProjectPermissions(action, actor, obj) ==
    IF action \in {"update", "partial_update", "destroy"}
    THEN IsProjectOwner(actor, obj)
    ELSE IF action \in {"task_status_chart", "project_velocity_chart"}
    THEN IsProjectOwner(actor, obj)
    ELSE TRUE

\* POST /projects/: the actor becomes the owner, whatever owner_id says, and
\* one of the managers.  data = [owner_id, manager_ids, status, team]; team
\* holds the keys of the teams of the project, which must exist.
ProjectCreate(actor, data) ==
    IF ~IsAuthenticated(actor) THEN Result(401)
    ELSE IF data.status # "omit" /\ data.status \notin ProjectStatus THEN Result(400)
    ELSE IF data.team # OmitIds /\ ~(data.team \subseteq DOMAIN teams) THEN Result(400)
    ELSE LET id == nextId.project
             managers == IF data.manager_ids = OmitSet THEN {} ELSE data.manager_ids
             row == [owner |-> actor,
                     managers |-> managers \cup {actor},
                     status |-> IF data.status = "omit" THEN "active"
                                ELSE data.status,
                     team |-> IF data.team = OmitIds THEN {} ELSE data.team]
         IN [Result(201) EXCEPT
               !.projects = projects @@ (id :> row),
               !.nextId = [nextId EXCEPT !.project = id + 1]]

\* PUT and PATCH /projects/{p}/.  A field the payload omits keeps its value;
\* a null owner_id passes validation and is refused by the database.
ProjectUpdate(actor, p, data, partial) ==
    IF ~IsAuthenticated(actor) THEN Result(401)
    ELSE IF p \notin DOMAIN projects THEN Result(404)
    ELSE IF ~ProjectPermissions(IF partial THEN "partial_update" ELSE "update",
                                actor, projects[p])
    THEN Result(403)
    ELSE IF data.status # "omit" /\ data.status \notin ProjectStatus THEN Result(400)
    ELSE IF data.team # OmitIds /\ ~(data.team \subseteq DOMAIN teams) THEN Result(400)
    ELSE IF data.owner_id = NoUser THEN Result(500)
    ELSE LET old == projects[p]
             row == [owner |-> IF data.owner_id = OmitUser THEN old.owner
                               ELSE data.owner_id,
                     managers |-> IF data.manager_ids = OmitSet THEN old.managers
                                  ELSE data.manager_ids,
                     status |-> IF data.status = "omit" THEN old.status
                                ELSE data.status,
                     team |-> IF data.team = OmitIds THEN old.team ELSE data.team]
         IN [Result(200) EXCEPT !.projects = [projects EXCEPT ![p] = row]]

\* DELETE /projects/{p}/.
ProjectDestroy(actor, p) ==
    IF ~IsAuthenticated(actor) THEN Result(401)
    ELSE IF p \notin DOMAIN projects THEN Result(404)
    ELSE IF ~ProjectPermissions("destroy", actor, projects[p]) THEN Result(403)
    ELSE DeleteProject(Result(204), p)

\* GET /projects/{p}/.
ProjectRetrieve(actor, p) ==
    IF ~IsAuthenticated(actor) THEN Result(401)
    ELSE IF p \notin DOMAIN projects THEN Result(404)
    ELSE IF ~ProjectPermissions("retrieve", actor, projects[p]) THEN Result(403)
    ELSE Result(200)

\* GET /projects/.
ProjectList(actor) ==
    IF ~IsAuthenticated(actor) THEN Result(401) ELSE Result(200)

\* The statuses in the order of order_by('status').
StatusOrder == <<"CANCELLED", "DONE", "IN_PROGRESS", "TODO", "in_review">>

\* The elements of a set of numbers, ascending (order_by of the buckets).
RECURSIVE Ascending(_)
Ascending(S) ==
    IF S = {} THEN << >>
    ELSE LET least == CHOOSE x \in S : \A y \in S : x <= y
         IN <<least>> \o Ascending(S \ {least})

\* Sum and Count over the tasks in S: the sum of weight[t], which is the
\* task's story points for Sum('story_points') and 1 for Count('id').
RECURSIVE SumOver(_, _)
SumOver(weight, S) ==
    IF S = {} THEN 0
    ELSE LET t == CHOOSE x \in S : TRUE
         IN weight[t] + SumOver(weight, S \ {t})

\* TruncWeek and TruncMonth of a day of the clock: weeks of seven days, and
\* months taken as thirty days each.
DaysPerWeek == 7
DaysPerMonth == 30
TruncWeek(d) == d \div DaysPerWeek
TruncMonth(d) == d \div DaysPerMonth

\* The labels and the data of a report over the tasks in DOMAIN bucket,
\* grouped by bucket[t] in ascending order, each group with the sum of its
\* tasks' weights.
Series(bucket, weight) ==
    LET labels == Ascending({bucket[t] : t \in DOMAIN bucket})
    IN [labels |-> labels,
        data |-> [i \in DOMAIN labels |->
                     SumOver(weight, {t \in DOMAIN bucket : bucket[t] = labels[i]})]]

\* The task status report over the tasks of every project.
TaskStatusReportAll(p) ==
    LET count(st) == Cardinality({t \in DOMAIN tasks : tasks[t].status = st})
        labels == SelectSeq(StatusOrder, LAMBDA st : count(st) > 0)
    IN [labels |-> labels, data |-> [i \in DOMAIN labels |-> count(labels[i])]]

\* task_status_chart: the statuses of the tasks of project p, each with the
\* number of p's tasks that have it.
TaskStatusReport(p) ==
    LET count(st) == Cardinality({t \in DOMAIN tasks : /\ tasks[t].project = p
                                                       /\ tasks[t].status = st})
        labels == SelectSeq(StatusOrder, LAMBDA st : count(st) > 0)
    IN [labels |-> labels, data |-> [i \in DOMAIN labels |-> count(labels[i])]]

\* The tasks the velocity chart of project p sums: done, with story points,
\* updated in the last VelocityDays days.
VelocityDays == 90

\* VelocityTasks without the limit of VelocityDays days.
VelocityTasksAnyAge(p) ==
    {t \in DOMAIN tasks : /\ tasks[t].project = p
                          /\ tasks[t].status = "DONE"
                          /\ tasks[t].story_points # None}

VelocityTasks(p) ==
    {t \in DOMAIN tasks : /\ tasks[t].project = p
                          /\ tasks[t].status = "DONE"
                          /\ tasks[t].story_points # None
                          /\ tasks[t].updated_at >= now - VelocityDays}

\* project_velocity_chart: the story points of VelocityTasks(p) week by week.
VelocityReport(p) ==
    Series([t \in VelocityTasks(p) |-> TruncWeek(tasks[t].updated_at)],
           [t \in VelocityTasks(p) |-> tasks[t].story_points])

\* The report of the chart action of project p.
ProjectReport(action, p) ==
    IF action = "task_status_chart" THEN TaskStatusReport(p) ELSE VelocityReport(p)

\* The report is rendered: get_chart_url is called once with it and gives a
\* URL (rendered) or nothing.
Render(report, rendered) ==
    [Result(IF rendered THEN 200 ELSE 500) EXCEPT !.charts = <<report>>]

\* The renderer called before the data is looked at.
ProjectChartRendersFirst(action, actor, p, rendered) ==
    IF ~IsAuthenticated(actor) THEN Result(401)
    ELSE IF p \notin DOMAIN projects THEN Result(404)
    ELSE IF ~ProjectPermissions(action, actor, projects[p]) THEN Result(403)
    ELSE LET report == ProjectReport(action, p)
         IN IF report.labels = << >> THEN [Result(404) EXCEPT !.charts = <<report>>]
            ELSE Render(report, rendered)

\* GET /projects/{p}/task-status-chart/ and /velocity-chart/: 404 without
\* data, else the renderer is called and gives a URL (rendered) or fails.
ProjectChart(action, actor, p, rendered) ==
    IF ~IsAuthenticated(actor) THEN Result(401)
    ELSE IF p \notin DOMAIN projects THEN Result(404)
    ELSE IF ~ProjectPermissions(action, actor, projects[p]) THEN Result(403)
    ELSE LET report == ProjectReport(action, p)
         IN IF report.labels = << >> THEN Result(404)
            ELSE Render(report, rendered)

----------------------------------------------------------------------------
(* BusinessStatisticsViews and UserPersonalStatsView *)

\* The tasks the monthly reports look at were updated in the last YearDays
\* days.
YearDays == 365

\* GET /statistics/business/story-points-monthly/: the story points of the
\* done tasks month by month.
BusinessStatistics(actor, rendered) ==
    IF ~IsAuthenticated(actor) THEN Result(401)
    ELSE LET S == {t \in DOMAIN tasks : /\ tasks[t].status = "DONE"
                                        /\ tasks[t].updated_at >= now - YearDays
                                        /\ tasks[t].story_points # None}
             report == Series([t \in S |-> TruncMonth(tasks[t].updated_at)],
                              [t \in S |-> tasks[t].story_points])
         IN IF report.labels = << >> THEN Result(404)
            ELSE Render(report, rendered)

\* UserPersonalStats over the done tasks of every assignee.
UserPersonalStatsEveryone(actor, rendered) ==
    IF ~IsAuthenticated(actor) THEN Result(401)
    ELSE LET S == {t \in DOMAIN tasks : /\ tasks[t].status = "DONE"
                                        /\ tasks[t].updated_at >= now - YearDays}
             report == Series([t \in S |-> TruncMonth(tasks[t].updated_at)], [t \in S |-> 1])
         IN IF report.labels = << >> THEN Result(404)
            ELSE Render(report, rendered)

\* GET /me/statistics/task-completion-chart/: the number of the actor's done
\* tasks month by month.
UserPersonalStats(actor, rendered) ==
    IF ~IsAuthenticated(actor) THEN Result(401)
    ELSE LET S == {t \in DOMAIN tasks : /\ tasks[t].assignee = actor
                                        /\ tasks[t].status = "DONE"
                                        /\ tasks[t].updated_at >= now - YearDays}
             report == Series([t \in S |-> TruncMonth(tasks[t].updated_at)], [t \in S |-> 1])
         IN IF report.labels = << >> THEN Result(404)
            ELSE Render(report, rendered)

----------------------------------------------------------------------------
(* TaskViewSet and TaskSerializer *)

\* The object permissions of a Task action, after IsAuthenticated.
TaskPermissions(action, actor, method, obj) ==
    IF action \in {"update", "partial_update", "destroy"}
    THEN IsAssigneeOrProjectOwner(actor, method, obj)
    ELSE IF action \in {"start_progress", "mark_as_done"}
    THEN IsAssigneeOrProjectOwner(actor, method, obj)
    ELSE TRUE

\* A TaskHistory row.
HistoryRow(t, user, field, old, new, description) ==
    [task |-> t, user |-> user, field_changed |-> field,
     old_value |-> old, new_value |-> new, change_description |-> description]

\* The field validation without the check of the task's own id.
TaskValidAnyParent(data, instance) ==
    /\ data.project_id # Omit => data.project_id \in DOMAIN projects
    /\ data.status # "omit" => data.status \in TaskStatus
    /\ data.parent_task_id \notin {Omit, None} => data.parent_task_id \in DOMAIN tasks

\* TaskSerializer's field validation: the project and the parent task exist,
\* the status is a choice, and an existing task is not made its own parent.
\* instance is the task updated, None on create.
TaskValid(data, instance) ==
    /\ data.project_id # Omit => data.project_id \in DOMAIN projects
    /\ data.status # "omit" => data.status \in TaskStatus
    /\ data.parent_task_id \notin {Omit, None} =>
          /\ data.parent_task_id \in DOMAIN tasks
          /\ instance # None => data.parent_task_id # instance

\* TaskCreate without the history row.
TaskCreateUnlogged(actor, data) ==
    IF ~IsAuthenticated(actor) THEN Result(401)
    ELSE IF data.name = "omit" \/ data.project_id = Omit THEN Result(400)
    ELSE IF ~TaskValid(data, None) THEN Result(400)
    ELSE LET id == nextId.task
             row == [project |-> data.project_id,
                     parent_task |-> IF data.parent_task_id = Omit THEN None
                                     ELSE data.parent_task_id,
                     name |-> data.name,
                     status |-> IF data.status = "omit" THEN "TODO" ELSE data.status,
                     assignee |-> IF data.assignee_id # OmitUser THEN data.assignee_id
                                  ELSE IF data.assign_to_me THEN actor
                                  ELSE NoUser,
                     story_points |-> IF data.story_points = Omit THEN None
                                      ELSE data.story_points,
                     deadline |-> IF data.deadline = Omit THEN None ELSE data.deadline,
                     updated_at |-> now]
         IN [Result(201) EXCEPT
               !.tasks = tasks @@ (id :> row),
               !.nextId = [nextId EXCEPT !.task = id + 1]]

\* POST /tasks/.  data = [name, status, story_points, deadline, project_id,
\* assignee_id, parent_task_id, assign_to_me].
TaskCreate(actor, data) ==
    IF ~IsAuthenticated(actor) THEN Result(401)
    ELSE IF data.name = "omit" \/ data.project_id = Omit THEN Result(400)
    ELSE IF ~TaskValid(data, None) THEN Result(400)
    ELSE LET id == nextId.task
             row == [project |-> data.project_id,
                     parent_task |-> IF data.parent_task_id = Omit THEN None
                                     ELSE data.parent_task_id,
                     name |-> data.name,
                     status |-> IF data.status = "omit" THEN "TODO" ELSE data.status,
                     assignee |-> IF data.assignee_id # OmitUser THEN data.assignee_id
                                  ELSE IF data.assign_to_me THEN actor
                                  ELSE NoUser,
                     story_points |-> IF data.story_points = Omit THEN None
                                      ELSE data.story_points,
                     deadline |-> IF data.deadline = Omit THEN None ELSE data.deadline,
                     updated_at |-> now]
         IN [Result(201) EXCEPT
               !.tasks = tasks @@ (id :> row),
               !.nextId = [nextId EXCEPT !.task = id + 1],
               !.history = Append(history,
                                  HistoryRow(id, actor, NoText, NoText, NoText, "created"))]

\* TaskSerializer._log_history: the rows a generic update appends, in the
\* order of the serializer's fields.  old is the task before the update.  The
\* keys of validated_data are the model's field names, so the three foreign
\* keys take the branch of the scalar fields: assignee and parent_task
\* compare the serialized old value with the new object, which differ
\* whenever one of them is set, and project compares the updated instance's
\* project with itself.
LogHistory(t, old, data, user) ==
    LET scalar(field, was, new) ==
            IF new # "omit" /\ was # new
            THEN <<HistoryRow(t, user, field, was, new, "changed")>> ELSE <<>>
        number(field, was, new) ==
            IF new # Omit /\ was # new
            THEN <<HistoryRow(t, user, field, Str(was), Str(new), "changed")>> ELSE <<>>
        date(field, was, new) ==
            IF new # Omit /\ ~(was = None /\ new = None)
            THEN <<HistoryRow(t, user, field, StrDate(was), StrDate(new), "changed")>>
            ELSE <<>>
        assignee(was, new) ==
            IF new # OmitUser /\ ~(was = NoUser /\ new = NoUser)
            THEN <<HistoryRow(t, user, "assignee", StrUserData(was), StrUser(new), "changed")>>
            ELSE <<>>
        parent(was, new) ==
            IF new # Omit /\ ~(was = None /\ new = None)
            THEN <<HistoryRow(t, user, "parent_task", Str(was), StrTask(new), "changed")>>
            ELSE <<>>
    IN scalar("name", old.name, data.name)
       \o scalar("status", old.status, data.status)
       \o number("story_points", old.story_points, data.story_points)
       \o date("deadline", old.deadline, data.deadline)
       \o assignee(old.assignee, data.assignee_id)
       \o parent(old.parent_task, data.parent_task_id)

\* PUT (partial = FALSE) and PATCH /tasks/{t}/.
TaskUpdate(actor, t, data, partial) ==
    IF ~IsAuthenticated(actor) THEN Result(401)
    ELSE IF t \notin DOMAIN tasks THEN Result(404)
    ELSE IF ~TaskPermissions(IF partial THEN "partial_update" ELSE "update",
                             actor, IF partial THEN "PATCH" ELSE "PUT", tasks[t])
    THEN Result(403)
    ELSE IF ~partial /\ (data.name = "omit" \/ data.project_id = Omit) THEN Result(400)
    ELSE IF ~TaskValid(data, t) THEN Result(400)
    ELSE LET old == tasks[t]
             row == [project |-> IF data.project_id = Omit THEN old.project
                                 ELSE data.project_id,
                     parent_task |-> IF data.parent_task_id = Omit THEN old.parent_task
                                     ELSE data.parent_task_id,
                     name |-> IF data.name = "omit" THEN old.name ELSE data.name,
                     status |-> IF data.status = "omit" THEN old.status ELSE data.status,
                     assignee |-> IF data.assignee_id = OmitUser THEN old.assignee
                                  ELSE data.assignee_id,
                     story_points |-> IF data.story_points = Omit THEN old.story_points
                                      ELSE data.story_points,
                     deadline |-> IF data.deadline = Omit THEN old.deadline
                                  ELSE data.deadline,
                     updated_at |-> now]
         IN [Result(200) EXCEPT
               !.tasks = [tasks EXCEPT ![t] = row],
               !.history = history \o LogHistory(t, old, data, actor)]

\* DELETE /tasks/{t}/.
TaskDestroy(actor, t) ==
    IF ~IsAuthenticated(actor) THEN Result(401)
    ELSE IF t \notin DOMAIN tasks THEN Result(404)
    ELSE IF ~TaskPermissions("destroy", actor, "DELETE", tasks[t]) THEN Result(403)
    ELSE DeleteTasks(Result(204), {t})

\* GET /tasks/{t}/.
TaskRetrieve(actor, t) ==
    IF ~IsAuthenticated(actor) THEN Result(401)
    ELSE IF t \notin DOMAIN tasks THEN Result(404)
    ELSE IF ~TaskPermissions("retrieve", actor, "GET", tasks[t]) THEN Result(403)
    ELSE Result(200)

\* start_progress also from in_review.
start_progress_from_review(actor, t) ==
    IF ~IsAuthenticated(actor) THEN Result(401)
    ELSE IF t \notin DOMAIN tasks THEN Result(404)
    ELSE IF ~TaskPermissions("start_progress", actor, "POST", tasks[t]) THEN Result(403)
    ELSE IF tasks[t].status \in {"TODO", "in_review"}
    THEN [Result(200) EXCEPT
            !.tasks = [tasks EXCEPT ![t].status = "IN_PROGRESS", ![t].updated_at = now],
            !.history = Append(history,
                               HistoryRow(t, actor, "status", tasks[t].status, "IN_PROGRESS",
                                          "Status changed to In Progress"))]
    ELSE Result(400)

\* POST /tasks/{t}/start-progress/.
start_progress(actor, t) ==
    IF ~IsAuthenticated(actor) THEN Result(401)
    ELSE IF t \notin DOMAIN tasks THEN Result(404)
    ELSE IF ~TaskPermissions("start_progress", actor, "POST", tasks[t]) THEN Result(403)
    ELSE IF tasks[t].status = "TODO"
    THEN [Result(200) EXCEPT
            !.tasks = [tasks EXCEPT ![t].status = "IN_PROGRESS", ![t].updated_at = now],
            !.history = Append(history,
                               HistoryRow(t, actor, "status", "TODO", "IN_PROGRESS",
                                          "Status changed to In Progress"))]
    ELSE Result(400)

\* mark_as_done without its history row.
mark_as_done_unlogged(actor, t) ==
    IF ~IsAuthenticated(actor) THEN Result(401)
    ELSE IF t \notin DOMAIN tasks THEN Result(404)
    ELSE IF ~TaskPermissions("mark_as_done", actor, "POST", tasks[t]) THEN Result(403)
    ELSE IF tasks[t].status = "IN_PROGRESS"
    THEN [Result(200) EXCEPT
            !.tasks = [tasks EXCEPT ![t].status = "DONE", ![t].updated_at = now]]
    ELSE Result(400)

\* mark_as_done saving the task before it looks at the status.
mark_as_done_saves_first(actor, t) ==
    IF ~IsAuthenticated(actor) THEN Result(401)
    ELSE IF t \notin DOMAIN tasks THEN Result(404)
    ELSE IF ~TaskPermissions("mark_as_done", actor, "POST", tasks[t]) THEN Result(403)
    ELSE IF tasks[t].status = "IN_PROGRESS"
    THEN [Result(200) EXCEPT
            !.tasks = [tasks EXCEPT ![t].status = "DONE", ![t].updated_at = now],
            !.history = Append(history,
                               HistoryRow(t, actor, "status", "IN_PROGRESS", "DONE",
                                          "Status changed to Done"))]
    ELSE [Result(400) EXCEPT !.tasks = [tasks EXCEPT ![t].updated_at = now]]

\* POST /tasks/{t}/mark-as-done/.
mark_as_done(actor, t) ==
    IF ~IsAuthenticated(actor) THEN Result(401)
    ELSE IF t \notin DOMAIN tasks THEN Result(404)
    ELSE IF ~TaskPermissions("mark_as_done", actor, "POST", tasks[t]) THEN Result(403)
    ELSE IF tasks[t].status = "IN_PROGRESS"
    THEN [Result(200) EXCEPT
            !.tasks = [tasks EXCEPT ![t].status = "DONE", ![t].updated_at = now],
            !.history = Append(history,
                               HistoryRow(t, actor, "status", "IN_PROGRESS", "DONE",
                                          "Status changed to Done"))]
    ELSE Result(400)

----------------------------------------------------------------------------
(* WorkLogViewSet and WorkLogSerializer *)

\* The queryset without the filter on the user.
WorkLogQuerysetAll(actor) ==
    IF IsAuthenticated(actor) THEN DOMAIN worklogs ELSE {}

\* WorkLogViewSet.get_queryset: the work logs the actor's requests see.
WorkLogQueryset(actor) ==
    IF is_staff(actor) \/ role(actor) = "admin" THEN DOMAIN worklogs
    ELSE IF IsAuthenticated(actor) THEN {w \in DOMAIN worklogs : worklogs[w].user = actor}
    ELSE {}

\* The object permissions of a WorkLog action, after IsAuthenticated.
WorkLogPermissions(action, actor, obj) ==
    IF action \in {"update", "partial_update", "destroy"}
    THEN IsWorkLogOwner(actor, obj)
    ELSE TRUE

\* The fields of the payload refer to rows that exist, and hours_spent is
\* given where it is required.
WorkLogFieldsValid(data, partial) ==
    /\ data.task_id \notin {Omit, None} => data.task_id \in DOMAIN tasks
    /\ data.project_id \notin {Omit, None} => data.project_id \in DOMAIN projects
    /\ ~partial => data.hours_spent # Omit

\* validate reading only the payload: a field it omits counts as null.
WorkLogValidatePayloadOnly(data, instance) ==
    LET effective_task == IF data.task_id = Omit THEN None ELSE data.task_id
        effective_project == IF data.project_id = Omit THEN None ELSE data.project_id
    IN /\ ~(effective_task # None /\ effective_project # None)
       /\ ~(effective_task = None /\ effective_project = None)

\* WorkLogSerializer.validate: the task and the project the work log would
\* have, a field the payload omits keeping the stored value (None on create),
\* are one set and one null.  instance is the stored row, or a row of nulls.
WorkLogValidate(data, instance) ==
    LET effective_task == IF data.task_id = Omit THEN instance.task ELSE data.task_id
        effective_project == IF data.project_id = Omit THEN instance.project
                             ELSE data.project_id
    IN /\ ~(effective_task # None /\ effective_project # None)
       /\ ~(effective_task = None /\ effective_project = None)

\* POST /worklogs/.  data = [user_id, task_id, project_id, hours_spent].  The
\* view saves the actor as the user, whatever user_id says.
WorkLogCreate(actor, data) ==
    IF ~IsAuthenticated(actor) THEN Result(401)
    ELSE IF ~WorkLogFieldsValid(data, FALSE) THEN Result(400)
    ELSE IF ~WorkLogValidate(data, [task |-> None, project |-> None]) THEN Result(400)
    ELSE LET id == nextId.worklog
             row == [user |-> actor,
                     task |-> IF data.task_id = Omit THEN None ELSE data.task_id,
                     project |-> IF data.project_id = Omit THEN None
                                 ELSE data.project_id,
                     hours_spent |-> data.hours_spent]
         IN [Result(201) EXCEPT
               !.worklogs = worklogs @@ (id :> row),
               !.nextId = [nextId EXCEPT !.worklog = id + 1]]

\* PUT (partial = FALSE) and PATCH /worklogs/{w}/.  A PUT without user_id
\* takes the field's default, the actor.
WorkLogUpdate(actor, w, data, partial) ==
    IF ~IsAuthenticated(actor) THEN Result(401)
    ELSE IF w \notin WorkLogQueryset(actor) THEN Result(404)
    ELSE IF ~WorkLogPermissions(IF partial THEN "partial_update" ELSE "update",
                                actor, worklogs[w])
    THEN Result(403)
    ELSE IF ~WorkLogFieldsValid(data, partial) THEN Result(400)
    ELSE IF ~WorkLogValidate(data, worklogs[w]) THEN Result(400)
    ELSE LET old == worklogs[w]
             row == [user |-> IF data.user_id # OmitUser THEN data.user_id
                              ELSE IF partial THEN old.user
                              ELSE actor,
                     task |-> IF data.task_id = Omit THEN old.task ELSE data.task_id,
                     project |-> IF data.project_id = Omit THEN old.project
                                 ELSE data.project_id,
                     hours_spent |-> IF data.hours_spent = Omit THEN old.hours_spent
                                     ELSE data.hours_spent]
         IN [Result(200) EXCEPT !.worklogs = [worklogs EXCEPT ![w] = row]]

\* DELETE /worklogs/{w}/.
WorkLogDestroy(actor, w) ==
    IF ~IsAuthenticated(actor) THEN Result(401)
    ELSE IF w \notin WorkLogQueryset(actor) THEN Result(404)
    ELSE IF ~WorkLogPermissions("destroy", actor, worklogs[w]) THEN Result(403)
    ELSE [Result(204) EXCEPT !.worklogs = Without(worklogs, {w})]

\* GET /worklogs/{w}/.
WorkLogRetrieve(actor, w) ==
    IF ~IsAuthenticated(actor) THEN Result(401)
    ELSE IF w \notin WorkLogQueryset(actor) THEN Result(404)
    ELSE IF ~WorkLogPermissions("retrieve", actor, worklogs[w]) THEN Result(403)
    ELSE Result(200)

\* GET /worklogs/: the response lists WorkLogQueryset(actor).
WorkLogList(actor) ==
    IF ~IsAuthenticated(actor) THEN Result(401) ELSE Result(200)

----------------------------------------------------------------------------
(* TeamViewSet *)

\* POST /teams/: the actor becomes the owner and a member with role lead.
TeamCreate(actor, data) ==
    IF ~IsAuthenticated(actor) THEN Result(401)
    ELSE IF data.name = "omit" THEN Result(400)
    ELSE LET id == nextId.team
             m == nextId.member
         IN [Result(201) EXCEPT
               !.teams = teams @@ (id :> [owner |-> actor, name |-> data.name]),
               !.members = members @@ (m :> [user |-> actor, team |-> id, role |-> "lead"]),
               !.nextId = [nextId EXCEPT !.team = id + 1, !.member = m + 1]]

\* TeamUpdate with a writable owner_id.
TeamUpdateOwnerWritable(actor, T, data, partial) ==
    IF ~IsAuthenticated(actor) THEN Result(401)
    ELSE IF T \notin DOMAIN teams THEN Result(404)
    ELSE IF ~IsTeamOwnerOrReadOnly(actor, IF partial THEN "PATCH" ELSE "PUT", teams[T])
    THEN Result(403)
    ELSE IF ~partial /\ data.name = "omit" THEN Result(400)
    ELSE [Result(200) EXCEPT
            !.teams = [teams EXCEPT
                         ![T].name = IF data.name = "omit" THEN teams[T].name ELSE data.name,
                         ![T].owner = IF data.owner_id = OmitUser THEN teams[T].owner
                                      ELSE data.owner_id]]

\* PUT (partial = FALSE) and PATCH /teams/{T}/.  data = [name, owner_id]:
\* the serializer has no field owner_id and its owner is read-only, so the
\* owner_id of a payload is dropped.
TeamUpdate(actor, T, data, partial) ==
    IF ~IsAuthenticated(actor) THEN Result(401)
    ELSE IF T \notin DOMAIN teams THEN Result(404)
    ELSE IF ~IsTeamOwnerOrReadOnly(actor, IF partial THEN "PATCH" ELSE "PUT", teams[T])
    THEN Result(403)
    ELSE IF ~partial /\ data.name = "omit" THEN Result(400)
    ELSE [Result(200) EXCEPT
            !.teams = [teams EXCEPT ![T].name =
                          IF data.name = "omit" THEN teams[T].name ELSE data.name]]

\* DELETE /teams/{T}/: the memberships go with the team, and the projects of
\* the team lose it.
TeamDestroy(actor, T) ==
    IF ~IsAuthenticated(actor) THEN Result(401)
    ELSE IF T \notin DOMAIN teams THEN Result(404)
    ELSE IF ~IsTeamOwnerOrReadOnly(actor, "DELETE", teams[T]) THEN Result(403)
    ELSE [Result(204) EXCEPT
            !.teams = Without(teams, {T}),
            !.members = Without(members, {m \in DOMAIN members : members[m].team = T}),
            !.projects = [p \in DOMAIN projects |->
                            [projects[p] EXCEPT !.team = projects[p].team \ {T}]]]

\* GET /teams/{T}/.
TeamRetrieve(actor, T) ==
    IF ~IsAuthenticated(actor) THEN Result(401)
    ELSE IF T \notin DOMAIN teams THEN Result(404)
    ELSE IF ~IsTeamOwnerOrReadOnly(actor, "GET", teams[T]) THEN Result(403)
    ELSE Result(200)

\* GET /teams/.
TeamList(actor) ==
    IF ~IsAuthenticated(actor) THEN Result(401) ELSE Result(200)

----------------------------------------------------------------------------
(* TeamMemberViewSet and TeamMemberSerializer *)

\* The permissions of update for destroy too: a member may leave.
TeamMemberPermissionsLeave(action, actor, method, obj) ==
    IF action = "create"
    THEN IsTeamOwnerOrReadOnly(actor, method, obj)
    ELSE IF action \in {"update", "partial_update", "destroy"}
    THEN IsTeamMemberUserOrTeamOwner(actor, method, obj)
    ELSE TRUE

\* The object permissions of a TeamMember action, after IsAuthenticated.
TeamMemberPermissions(action, actor, method, obj) ==
    IF action \in {"create", "destroy"}
    THEN IsTeamOwnerOrReadOnly(actor, method, obj)
    ELSE IF action \in {"update", "partial_update"}
    THEN IsTeamMemberUserOrTeamOwner(actor, method, obj)
    ELSE TRUE

\* TeamMemberViewSet.get_queryset: the memberships of team T.
TeamMemberQueryset(T) == {m \in DOMAIN members : members[m].team = T}

\* The database without unique_together: it refuses only a row whose team
\* does not exist.
MemberRefusedNoTeam(m, row) == row.team \notin DOMAIN teams

\* The database refuses the row (IntegrityError): another membership has its
\* (user, team), or its team does not exist.  m is the row's key.
MemberRefused(m, row) ==
    \/ \E k \in DOMAIN members \ {m} :
          members[k].user = row.user /\ members[k].team = row.team
    \/ row.team \notin DOMAIN teams

\* TeamMemberCreate saving the row before it checks the team's owner.
TeamMemberCreateSavesFirst(actor, T, data) ==
    IF ~IsAuthenticated(actor) THEN Result(401)
    ELSE IF data.user_id = OmitUser THEN Result(400)
    ELSE IF data.role # "omit" /\ data.role \notin TeamRole THEN Result(400)
    ELSE IF T \notin DOMAIN teams THEN Result(404)
    ELSE LET id == nextId.member
             row == [user |-> data.user_id, team |-> T,
                     role |-> IF data.role = "omit" THEN "member" ELSE data.role]
         IN IF MemberRefused(id, row) THEN Result(400)
            ELSE [Result(IF TeamMemberPermissions("create", actor, "POST", teams[T])
                         THEN 201 ELSE 403) EXCEPT
                    !.members = members @@ (id :> row),
                    !.nextId = [nextId EXCEPT !.member = id + 1]]

\* POST /teams/{T}/members/.  data = [user_id, team_id, role].  The payload
\* is validated first, then the team is looked up and its owner checked; the
\* row gets the team of the URL, whatever team_id says.
TeamMemberCreate(actor, T, data) ==
    IF ~IsAuthenticated(actor) THEN Result(401)
    ELSE IF data.user_id = OmitUser THEN Result(400)
    ELSE IF data.role # "omit" /\ data.role \notin TeamRole THEN Result(400)
    ELSE IF T \notin DOMAIN teams THEN Result(404)
    ELSE IF ~TeamMemberPermissions("create", actor, "POST", teams[T]) THEN Result(403)
    ELSE LET id == nextId.member
             row == [user |-> data.user_id, team |-> T,
                     role |-> IF data.role = "omit" THEN "member" ELSE data.role]
         IN IF MemberRefused(id, row) THEN Result(400)
            ELSE [Result(201) EXCEPT
                    !.members = members @@ (id :> row),
                    !.nextId = [nextId EXCEPT !.member = id + 1]]

\* PUT (partial = FALSE) and PATCH /teams/{T}/members/{m}/.  user_id, team_id
\* and role are all writable; a row the database refuses is a server error.
TeamMemberUpdate(actor, T, m, data, partial) ==
    IF ~IsAuthenticated(actor) THEN Result(401)
    ELSE IF T \notin DOMAIN teams \/ m \notin TeamMemberQueryset(T) THEN Result(404)
    ELSE IF ~TeamMemberPermissions(IF partial THEN "partial_update" ELSE "update",
                                   actor, IF partial THEN "PATCH" ELSE "PUT", members[m])
    THEN Result(403)
    ELSE IF ~partial /\ data.user_id = OmitUser THEN Result(400)
    ELSE IF data.role # "omit" /\ data.role \notin TeamRole THEN Result(400)
    ELSE LET old == members[m]
             row == [user |-> IF data.user_id = OmitUser THEN old.user ELSE data.user_id,
                     team |-> IF data.team_id = Omit THEN old.team ELSE data.team_id,
                     role |-> IF data.role = "omit" THEN old.role ELSE data.role]
         IN IF MemberRefused(m, row) THEN Result(500)
            ELSE [Result(200) EXCEPT !.members = [members EXCEPT ![m] = row]]

\* TeamMemberDestroy without the guard of the last lead.
TeamMemberDestroyUnguarded(actor, T, m) ==
    IF ~IsAuthenticated(actor) THEN Result(401)
    ELSE IF T \notin DOMAIN teams \/ m \notin TeamMemberQueryset(T) THEN Result(404)
    ELSE IF ~TeamMemberPermissions("destroy", actor, "DELETE", members[m]) THEN Result(403)
    ELSE [Result(204) EXCEPT !.members = Without(members, {m})]

\* DELETE /teams/{T}/members/{m}/: the owner's membership stays while it is
\* the team's only lead.
TeamMemberDestroy(actor, T, m) ==
    IF ~IsAuthenticated(actor) THEN Result(401)
    ELSE IF T \notin DOMAIN teams \/ m \notin TeamMemberQueryset(T) THEN Result(404)
    ELSE IF ~TeamMemberPermissions("destroy", actor, "DELETE", members[m]) THEN Result(403)
    ELSE IF /\ members[m].user = teams[T].owner
            /\ members[m].role = "lead"
            /\ Cardinality({k \in TeamMemberQueryset(T) : members[k].role = "lead"}) <= 1
    THEN Result(400)
    ELSE [Result(204) EXCEPT !.members = Without(members, {m})]

\* GET /teams/{T}/members/{m}/.
TeamMemberRetrieve(actor, T, m) ==
    IF ~IsAuthenticated(actor) THEN Result(401)
    ELSE IF T \notin DOMAIN teams \/ m \notin TeamMemberQueryset(T) THEN Result(404)
    ELSE IF ~TeamMemberPermissions("retrieve", actor, "GET", members[m]) THEN Result(403)
    ELSE Result(200)

----------------------------------------------------------------------------
(* TaskCommentViewSet and TaskCommentSerializer *)

\* TaskCommentViewSet.get_queryset: the comments of task t.
TaskCommentQueryset(t) == {c \in DOMAIN comments : comments[c].task = t}

\* POST /tasks/{t}/comments/.  data = [comment, user_id, task_id]: task and
\* user are read-only, so the serializer drops user_id and task_id; the row
\* gets the actor and the task of the URL.
TaskCommentCreate(actor, t, data) ==
    IF ~IsAuthenticated(actor) THEN Result(401)
    ELSE IF data.comment = "omit" THEN Result(400)
    ELSE IF t \notin DOMAIN tasks THEN Result(404)
    ELSE LET id == nextId.comment
         IN [Result(201) EXCEPT
               !.comments = comments @@
                              (id :> [task |-> t, user |-> actor, comment |-> data.comment]),
               !.nextId = [nextId EXCEPT !.comment = id + 1]]

\* TaskCommentUpdate with user and task writable.
TaskCommentUpdateAll(actor, t, c, data, partial) ==
    IF ~IsAuthenticated(actor) THEN Result(401)
    ELSE IF t \notin DOMAIN tasks \/ c \notin TaskCommentQueryset(t) THEN Result(404)
    ELSE IF ~IsCommentOwnerOrReadOnly(actor, IF partial THEN "PATCH" ELSE "PUT", comments[c])
    THEN Result(403)
    ELSE IF ~partial /\ data.comment = "omit" THEN Result(400)
    ELSE [Result(200) EXCEPT
            !.comments = [comments EXCEPT
                ![c].comment = IF data.comment = "omit" THEN @ ELSE data.comment,
                ![c].user = IF data.user_id = OmitUser THEN @ ELSE data.user_id,
                ![c].task = IF data.task_id = Omit THEN @ ELSE data.task_id]]

\* PUT (partial = FALSE) and PATCH /tasks/{t}/comments/{c}/: only the text
\* is writable.
TaskCommentUpdate(actor, t, c, data, partial) ==
    IF ~IsAuthenticated(actor) THEN Result(401)
    ELSE IF t \notin DOMAIN tasks \/ c \notin TaskCommentQueryset(t) THEN Result(404)
    ELSE IF ~IsCommentOwnerOrReadOnly(actor, IF partial THEN "PATCH" ELSE "PUT", comments[c])
    THEN Result(403)
    ELSE IF ~partial /\ data.comment = "omit" THEN Result(400)
    ELSE [Result(200) EXCEPT
            !.comments = [comments EXCEPT
                ![c].comment = IF data.comment = "omit" THEN @ ELSE data.comment]]

\* DELETE /tasks/{t}/comments/{c}/.
TaskCommentDestroy(actor, t, c) ==
    IF ~IsAuthenticated(actor) THEN Result(401)
    ELSE IF t \notin DOMAIN tasks \/ c \notin TaskCommentQueryset(t) THEN Result(404)
    ELSE IF ~IsCommentOwnerOrReadOnly(actor, "DELETE", comments[c]) THEN Result(403)
    ELSE [Result(204) EXCEPT !.comments = Without(comments, {c})]

\* GET /tasks/{t}/comments/{c}/.
TaskCommentRetrieve(actor, t, c) ==
    IF ~IsAuthenticated(actor) THEN Result(401)
    ELSE IF t \notin DOMAIN tasks \/ c \notin TaskCommentQueryset(t) THEN Result(404)
    ELSE IF ~IsCommentOwnerOrReadOnly(actor, "GET", comments[c]) THEN Result(403)
    ELSE Result(200)

----------------------------------------------------------------------------
(* OwnerDashboardView and EmployeeDashboardView *)

\* The dashboard of the projects of every owner.
OwnerDashboardDataEveryone(user) ==
    LET count(st) == Cardinality({t \in DOMAIN tasks : tasks[t].status = st})
    IN [summary_stats |->
          [total_projects |-> Cardinality(DOMAIN projects),
           active_projects |->
              Cardinality({p \in DOMAIN projects : projects[p].status = "active"}),
           total_tasks |-> Cardinality(DOMAIN tasks),
           tasks_todo |-> count("TODO"),
           tasks_inprogress |-> count("IN_PROGRESS"),
           tasks_done |-> count("DONE")],
        projects_list |-> DOMAIN projects]

\* The body of the owner dashboard of `user`: the numbers of the projects the
\* user owns and of the tasks in them, and the projects themselves.
OwnerDashboardData(user) ==
    LET owned_projects == {p \in DOMAIN projects : projects[p].owner = user}
        tasks_in_owned_projects ==
            {t \in DOMAIN tasks : projects[tasks[t].project].owner = user}
        count(st) == Cardinality({t \in tasks_in_owned_projects : tasks[t].status = st})
    IN [summary_stats |->
          [total_projects |-> Cardinality(owned_projects),
           active_projects |->
              Cardinality({p \in owned_projects : projects[p].status = "active"}),
           total_tasks |-> Cardinality(tasks_in_owned_projects),
           tasks_todo |-> count("TODO"),
           tasks_inprogress |-> count("IN_PROGRESS"),
           tasks_done |-> count("DONE")],
        projects_list |-> owned_projects]

\* GET /dashboards/owner/: for staff and for users of role owner.
OwnerDashboard(actor) ==
    IF ~IsAuthenticated(actor) THEN Result(401)
    ELSE IF ~(is_staff(actor) \/ role(actor) = "owner") THEN Result(403)
    ELSE Result(200)

\* The elements of a set of keys, the newest first (ordering = '-created_at').
RECURSIVE Descending(_)
Descending(S) ==
    IF S = {} THEN << >>
    ELSE LET newest == CHOOSE x \in S : \A y \in S : x >= y
         IN <<newest>> \o Descending(S \ {newest})

\* The employee dashboard without the projects of the user's teams.
EmployeeDashboardDataAssigned(user) ==
    LET memberships == Ascending({m \in DOMAIN members : members[m].user = user})
        user_teams == [i \in DOMAIN memberships |-> members[memberships[i]].team]
        assigned_task_projects_ids ==
            {tasks[t].project : t \in {x \in DOMAIN tasks : tasks[x].assignee = user}}
        current_tasks == {t \in DOMAIN tasks : /\ tasks[t].assignee = user
                                               /\ tasks[t].status \in {"TODO", "IN_PROGRESS"}}
    IN [my_projects |-> Descending(assigned_task_projects_ids),
        my_teams |-> user_teams,
        my_current_tasks |-> Descending(current_tasks)]

\* The body of the employee dashboard of `user`.  user.member_of_teams joins
\* the teams with the memberships: one team for every membership of the user.
EmployeeDashboardData(user) ==
    LET memberships == Ascending({m \in DOMAIN members : members[m].user = user})
        user_teams == [i \in DOMAIN memberships |-> members[memberships[i]].team]
        assigned_task_projects_ids ==
            {tasks[t].project : t \in {x \in DOMAIN tasks : tasks[x].assignee = user}}
        team_projects_ids ==
            {p \in DOMAIN projects :
                \E i \in DOMAIN user_teams : user_teams[i] \in projects[p].team}
        all_involved_project_ids == assigned_task_projects_ids \cup team_projects_ids
        current_tasks == {t \in DOMAIN tasks : /\ tasks[t].assignee = user
                                               /\ tasks[t].status \in {"TODO", "IN_PROGRESS"}}
    IN [my_projects |-> Descending(all_involved_project_ids),
        my_teams |-> user_teams,
        my_current_tasks |-> Descending(current_tasks)]

\* GET /dashboards/employee/.
EmployeeDashboard(actor) ==
    IF ~IsAuthenticated(actor) THEN Result(401) ELSE Result(200)

----------------------------------------------------------------------------
(* Token authentication, login and LogoutAPIView *)

\* The user of the request that presents `key`: the user of the token with
\* that key, and nobody when no token has it or no key is presented (None).
Authenticate(key) == IF key \in DOMAIN tokens THEN tokens[key] ELSE Anon

\* The key of the token of user u, None when u has none (user.auth_token).
auth_token(u) ==
    IF \E k \in DOMAIN tokens : tokens[k] = u
    THEN CHOOSE k \in DOMAIN tokens : tokens[k] = u
    ELSE None

\* POST /auth/login/ with the name of user u and a password that is the
\* user's or not: the user's token is returned, a new one with a key never
\* used before when the user has none.  The result's `key` is the key returned.
Login(u, password_ok) ==
    IF ~password_ok THEN Result(400) @@ [key |-> None]
    ELSE IF auth_token(u) # None THEN Result(200) @@ [key |-> auth_token(u)]
    ELSE LET k == nextId.token
         IN [Result(200) EXCEPT
               !.tokens = tokens @@ (k :> u),
               !.nextId = [nextId EXCEPT !.token = k + 1]] @@ [key |-> k]

\* Logout answering without deleting the token.
LogoutKeepsToken(actor) ==
    IF ~IsAuthenticated(actor) THEN Result(401)
    ELSE IF auth_token(actor) = None THEN Result(400)
    ELSE Result(200)

\* POST /auth/logout/: the token of the user is deleted.
Logout(actor) ==
    IF ~IsAuthenticated(actor) THEN Result(401)
    ELSE IF auth_token(actor) = None THEN Result(400)
    ELSE [Result(200) EXCEPT !.tokens = Without(tokens, {auth_token(actor)})]

\* GET /profile/.
UserProfile(actor) ==
    IF ~IsAuthenticated(actor) THEN Result(401) ELSE Result(200)

----------------------------------------------------------------------------
(* The state machine *)

\* The database is empty and no request was made.
Init ==
    /\ projects = << >>
    /\ tasks = << >>
    /\ history = << >>
    /\ worklogs = << >>
    /\ teams = << >>
    /\ members = << >>
    /\ comments = << >>
    /\ tokens = << >>
    /\ nextId = [project |-> 1, task |-> 1, worklog |-> 1, team |-> 1, member |-> 1,
                 comment |-> 1, token |-> 1]
    /\ now = 0
    /\ response = [op |-> "none", actor |-> Anon, id |-> None, code |-> 0]

\* The database becomes that of result r, within the bounds of the model.
Apply(r) ==
    /\ r.nextId.project <= MaxProjects + 1
    /\ r.nextId.task <= MaxTasks + 1
    /\ r.nextId.worklog <= MaxWorkLogs + 1
    /\ r.nextId.team <= MaxTeams + 1
    /\ r.nextId.member <= MaxMembers + 1
    /\ r.nextId.comment <= MaxComments + 1
    /\ r.nextId.token <= MaxTokens + 1
    /\ Len(r.history) <= MaxHistory
    /\ projects' = r.projects
    /\ tasks' = r.tasks
    /\ history' = r.history
    /\ worklogs' = r.worklogs
    /\ teams' = r.teams
    /\ members' = r.members
    /\ comments' = r.comments
    /\ tokens' = r.tokens
    /\ nextId' = r.nextId
    /\ now' = now

\* A project payload that holds no field.
NoProjectData ==
    [owner_id |-> OmitUser, manager_ids |-> OmitSet, status |-> "omit", team |-> OmitIds]

\* The response to request op of actor on row id.
Respond(op, actor, id, r) ==
    response' = [op |-> op, actor |-> actor, id |-> id, code |-> r.code]

\* The response to a request whose payload the response echoes.
RespondData(op, actor, id, r, data) ==
    response' = [op |-> op, actor |-> actor, id |-> id, code |-> r.code, data |-> data]

\* A day passes: no request, and so no response.
Tick ==
    /\ now < MaxClock
    /\ now' = now + 1
    /\ response' = [op |-> "none", actor |-> Anon, id |-> None, code |-> 0]
    /\ UNCHANGED <<projects, tasks, history, worklogs, teams, members, comments, tokens,
                   nextId>>

\* Weeks or months pass without a request, while the clock is young: the
\* clock moves on by `days` days.
Later(days) ==
    /\ now <= MaxClock
    /\ now' = now + days
    /\ response' = [op |-> "none", actor |-> Anon, id |-> None, code |-> 0]
    /\ UNCHANGED <<projects, tasks, history, worklogs, teams, members, comments, tokens,
                   nextId>>

ReqProjectCreate(actor, data) ==
    LET r == ProjectCreate(actor, data)
    IN Apply(r) /\ Respond("project.create", actor, None, r)

ReqProjectUpdate(actor, p, data, partial) ==
    LET r == ProjectUpdate(actor, p, data, partial)
    IN Apply(r) /\ Respond(IF partial THEN "project.partial_update" ELSE "project.update",
                           actor, p, r)

ReqProjectDestroy(actor, p) ==
    LET r == ProjectDestroy(actor, p)
    IN Apply(r) /\ Respond("project.destroy", actor, p, r)

ReqProjectRetrieve(actor, p) ==
    LET r == ProjectRetrieve(actor, p)
    IN Apply(r) /\ Respond("project.retrieve", actor, p, r)

ReqProjectList(actor) ==
    LET r == ProjectList(actor)
    IN Apply(r) /\ Respond("project.list", actor, None, r)

\* The response of a report carries what the renderer was called with and
\* whether it gave a URL.
RespondChart(op, actor, id, r, rendered) ==
    response' = [op |-> op, actor |-> actor, id |-> id, code |-> r.code, charts |-> r.charts,
                 rendered |-> rendered]

ReqProjectChart(action, actor, p, rendered) ==
    LET r == ProjectChart(action, actor, p, rendered)
    IN Apply(r) /\ RespondChart("project." \o action, actor, p, r, rendered)

ReqBusinessStatistics(actor, rendered) ==
    LET r == BusinessStatistics(actor, rendered)
    IN Apply(r) /\ RespondChart("statistics.business", actor, None, r, rendered)

ReqUserPersonalStats(actor, rendered) ==
    LET r == UserPersonalStats(actor, rendered)
    IN Apply(r) /\ RespondChart("statistics.personal", actor, None, r, rendered)

ReqTaskCreate(actor, data) ==
    LET r == TaskCreate(actor, data)
    IN Apply(r) /\ Respond("task.create", actor, None, r)

ReqTaskUpdate(actor, t, data, partial) ==
    LET r == TaskUpdate(actor, t, data, partial)
    IN Apply(r) /\ RespondData(IF partial THEN "task.partial_update" ELSE "task.update",
                               actor, t, r, data)

ReqTaskDestroy(actor, t) ==
    LET r == TaskDestroy(actor, t)
    IN Apply(r) /\ Respond("task.destroy", actor, t, r)

ReqTaskRetrieve(actor, t) ==
    LET r == TaskRetrieve(actor, t)
    IN Apply(r) /\ Respond("task.retrieve", actor, t, r)

ReqStartProgress(actor, t) ==
    LET r == start_progress(actor, t)
    IN Apply(r) /\ Respond("task.start_progress", actor, t, r)

ReqMarkAsDone(actor, t) ==
    LET r == mark_as_done(actor, t)
    IN Apply(r) /\ Respond("task.mark_as_done", actor, t, r)

ReqWorkLogCreate(actor, data) ==
    LET r == WorkLogCreate(actor, data)
    IN Apply(r) /\ RespondData("worklog.create", actor, None, r, data)

ReqWorkLogUpdate(actor, w, data, partial) ==
    LET r == WorkLogUpdate(actor, w, data, partial)
    IN Apply(r) /\ RespondData(IF partial THEN "worklog.partial_update" ELSE "worklog.update",
                               actor, w, r, data)

ReqWorkLogDestroy(actor, w) ==
    LET r == WorkLogDestroy(actor, w)
    IN Apply(r) /\ Respond("worklog.destroy", actor, w, r)

ReqWorkLogRetrieve(actor, w) ==
    LET r == WorkLogRetrieve(actor, w)
    IN Apply(r) /\ Respond("worklog.retrieve", actor, w, r)

\* The response lists the keys of the work logs of the actor's queryset.
ReqWorkLogList(actor) ==
    LET r == WorkLogList(actor)
    IN /\ Apply(r)
       /\ response' = [op |-> "worklog.list", actor |-> actor, id |-> None, code |-> r.code,
                       ids |-> IF r.code = 200 THEN WorkLogQueryset(actor) ELSE {}]

ReqTeamCreate(actor, data) ==
    LET r == TeamCreate(actor, data)
    IN Apply(r) /\ Respond("team.create", actor, None, r)

ReqTeamUpdate(actor, T, data, partial) ==
    LET r == TeamUpdate(actor, T, data, partial)
    IN Apply(r) /\ Respond(IF partial THEN "team.partial_update" ELSE "team.update",
                           actor, T, r)

ReqTeamDestroy(actor, T) ==
    LET r == TeamDestroy(actor, T)
    IN Apply(r) /\ Respond("team.destroy", actor, T, r)

ReqTeamRetrieve(actor, T) ==
    LET r == TeamRetrieve(actor, T)
    IN Apply(r) /\ Respond("team.retrieve", actor, T, r)

ReqTeamList(actor) ==
    LET r == TeamList(actor)
    IN Apply(r) /\ Respond("team.list", actor, None, r)

\* The response to a request on membership id under the URL of team T, with
\* the payload of the request.
RespondMember(op, actor, T, id, r, data) ==
    response' = [op |-> op, actor |-> actor, id |-> id, code |-> r.code, team |-> T,
                 data |-> data]

ReqTeamMemberCreate(actor, T, data) ==
    LET r == TeamMemberCreate(actor, T, data)
    IN Apply(r) /\ RespondMember("member.create", actor, T, None, r, data)

ReqTeamMemberUpdate(actor, T, m, data, partial) ==
    LET r == TeamMemberUpdate(actor, T, m, data, partial)
    IN Apply(r) /\ RespondMember(IF partial THEN "member.partial_update" ELSE "member.update",
                                 actor, T, m, r, data)

ReqTeamMemberDestroy(actor, T, m) ==
    LET r == TeamMemberDestroy(actor, T, m)
    IN Apply(r) /\ RespondMember("member.destroy", actor, T, m, r, << >>)

ReqTeamMemberRetrieve(actor, T, m) ==
    LET r == TeamMemberRetrieve(actor, T, m)
    IN Apply(r) /\ RespondMember("member.retrieve", actor, T, m, r, << >>)

\* The response to a request on comment id under the URL of task t; that of
\* a create echoes the payload.
RespondComment(op, actor, t, id, r, data) ==
    response' = [op |-> op, actor |-> actor, id |-> id, code |-> r.code, task |-> t,
                 data |-> data]

ReqTaskCommentCreate(actor, t, data) ==
    LET r == TaskCommentCreate(actor, t, data)
    IN Apply(r) /\ RespondComment("comment.create", actor, t, None, r, data)

ReqTaskCommentUpdate(actor, t, c, data, partial) ==
    LET r == TaskCommentUpdate(actor, t, c, data, partial)
    IN Apply(r) /\ RespondComment(IF partial THEN "comment.partial_update"
                                  ELSE "comment.update", actor, t, c, r, << >>)

ReqTaskCommentDestroy(actor, t, c) ==
    LET r == TaskCommentDestroy(actor, t, c)
    IN Apply(r) /\ RespondComment("comment.destroy", actor, t, c, r, << >>)

ReqTaskCommentRetrieve(actor, t, c) ==
    LET r == TaskCommentRetrieve(actor, t, c)
    IN Apply(r) /\ RespondComment("comment.retrieve", actor, t, c, r, << >>)

\* The response to a request that is answered with a body.
RespondBody(op, actor, r, body) ==
    response' = [op |-> op, actor |-> actor, id |-> None, code |-> r.code,
                 body |-> IF r.code = 200 THEN body ELSE << >>]

ReqOwnerDashboard(actor) ==
    LET r == OwnerDashboard(actor)
    IN Apply(r) /\ RespondBody("dashboard.owner", actor, r, OwnerDashboardData(actor))

ReqEmployeeDashboard(actor) ==
    LET r == EmployeeDashboard(actor)
    IN Apply(r) /\ RespondBody("dashboard.employee", actor, r, EmployeeDashboardData(actor))

\* The response to a login carries the key of the token.
ReqLogin(u, password_ok) ==
    LET r == Login(u, password_ok)
    IN /\ Apply(r)
       /\ response' = [op |-> "auth.login", actor |-> u, id |-> None, code |-> r.code,
                       key |-> r.key]

\* The handler of the endpoint `op`, without payload or with an empty one.
Serve(op, actor) ==
    CASE op = "auth.logout" -> Logout(actor)
      [] op = "profile" -> UserProfile(actor)
      [] op = "project.list" -> ProjectList(actor)
      [] op = "project.create" -> ProjectCreate(actor, NoProjectData)
      [] op = "team.create" -> TeamCreate(actor, [name |-> "b", owner_id |-> OmitUser])
      [] op = "dashboard.employee" -> EmployeeDashboard(actor)

\* A request to `op` that presents `key` (None: no credential): it is handled
\* for the user the key authenticates.
ReqWithToken(op, key) ==
    LET actor == Authenticate(key)
        r == Serve(op, actor)
    IN /\ Apply(r)
       /\ response' = [op |-> op, actor |-> actor, id |-> None, code |-> r.code, key |-> key]

----------------------------------------------------------------------------
(* The task state machine: one project, tasks created in any status the      *)
(* transitions start from or refuse, and the two transitions.                *)

ProjectIds == 1 .. MaxProjects
TaskIds == 1 .. MaxTasks

\* A payload that holds no field.
NoTaskData ==
    [name |-> "omit", status |-> "omit", story_points |-> Omit, deadline |-> Omit,
     project_id |-> Omit, assignee_id |-> OmitUser, parent_task_id |-> Omit,
     assign_to_me |-> FALSE]


SMActors == {"u1", "u2", "u3", Anon}

SMTaskData ==
    {[NoTaskData EXCEPT !.name = "a", !.project_id = 1, !.status = s, !.assignee_id = u]
       : s \in {"omit", "IN_PROGRESS", "in_review"}, u \in {OmitUser, "u2"}}

NextSM ==
    \/ Tick
    \/ ReqProjectCreate("u1", NoProjectData)
    \/ \E data \in SMTaskData : ReqTaskCreate("u1", data)
    \/ \E actor \in SMActors, t \in TaskIds : ReqStartProgress(actor, t)
    \/ \E actor \in SMActors, t \in TaskIds : ReqMarkAsDone(actor, t)

SpecSM == Init /\ [][NextSM]_vars

\* The tables of the database.
db == <<projects, tasks, history, worklogs, teams, members, comments, tokens>>

\* Actor a is the assignee of task row obj or the owner of its project.
AssigneeOrOwner(a, obj) == a = obj.assignee \/ a = projects[obj.project].owner

\* C1: start_progress by the task's assignee or its project's owner succeeds
\* if and only if the task's status is TODO, and succeeds for nobody on any
\* other status; a success leaves the task IN_PROGRESS and appends exactly one
\* TaskHistory row: this task's, field_changed "status", from TODO to
\* IN_PROGRESS, by the actor.
C1_StartProgress ==
    [][(response'.op = "task.start_progress" /\ response'.id \in DOMAIN tasks) =>
         LET t == response'.id
             a == response'.actor
         IN /\ AssigneeOrOwner(a, tasks[t]) =>
                  (response'.code = 200 <=> tasks[t].status = "TODO")
            /\ response'.code = 200 =>
                  /\ tasks[t].status = "TODO"
                  /\ tasks'[t].status = "IN_PROGRESS"
                  /\ Len(history') = Len(history) + 1
                  /\ SubSeq(history', 1, Len(history)) = history
                  /\ LET row == history'[Len(history')]
                     IN /\ row.task = t
                        /\ row.user = a
                        /\ row.field_changed = "status"
                        /\ row.old_value = "TODO"
                        /\ row.new_value = "IN_PROGRESS"]_vars

\* C1's case: the assignee, who does not own the project, has started a task.
C1_Witness ==
    /\ response.op = "task.start_progress"
    /\ response.code = 200
    /\ tasks[response.id].assignee = response.actor
    /\ projects[tasks[response.id].project].owner # response.actor
    /\ tasks[response.id].status = "IN_PROGRESS"
    /\ history[Len(history)].new_value = "IN_PROGRESS"

\* C2: mark_as_done by the task's assignee or its project's owner succeeds if
\* and only if the task's status is IN_PROGRESS, and succeeds for nobody on
\* any other status; a success leaves the task DONE, its updated_at not
\* earlier than before, and appends exactly one TaskHistory row: this task's,
\* field_changed "status", from IN_PROGRESS to DONE.
C2_MarkAsDone ==
    [][(response'.op = "task.mark_as_done" /\ response'.id \in DOMAIN tasks) =>
         LET t == response'.id
             a == response'.actor
         IN /\ AssigneeOrOwner(a, tasks[t]) =>
                  (response'.code = 200 <=> tasks[t].status = "IN_PROGRESS")
            /\ response'.code = 200 =>
                  /\ tasks[t].status = "IN_PROGRESS"
                  /\ tasks'[t].status = "DONE"
                  /\ tasks'[t].updated_at >= tasks[t].updated_at
                  /\ Len(history') = Len(history) + 1
                  /\ SubSeq(history', 1, Len(history)) = history
                  /\ LET row == history'[Len(history')]
                     IN /\ row.task = t
                        /\ row.user = a
                        /\ row.field_changed = "status"
                        /\ row.old_value = "IN_PROGRESS"
                        /\ row.new_value = "DONE"]_vars

\* C2's case: a task was marked done on a later day than its last update.
C2_Witness ==
    /\ response.op = "task.mark_as_done"
    /\ response.code = 200
    /\ tasks[response.id].status = "DONE"
    /\ tasks[response.id].updated_at = MaxClock
    /\ Len(history) = 3
    /\ history[3].old_value = "IN_PROGRESS"
    /\ history[3].new_value = "DONE"

\* C3: start_progress on a task that is not TODO and mark_as_done on a task
\* that is not IN_PROGRESS do not succeed, answer 400 to the task's assignee
\* and to its project's owner, and leave every table, the task and the
\* history among them, as it was.
C3_InvalidTransition ==
    [][(/\ response'.id \in DOMAIN tasks
        /\ \/ response'.op = "task.start_progress" /\ tasks[response'.id].status # "TODO"
           \/ response'.op = "task.mark_as_done" /\ tasks[response'.id].status # "IN_PROGRESS")
       => /\ response'.code # 200
          /\ AssigneeOrOwner(response'.actor, tasks[response'.id]) => response'.code = 400
          /\ db' = db]_vars

\* C3's case: mark_as_done was refused on a task that is still TODO, on a
\* later day than the task's last update.
C3_Witness ==
    /\ response.op = "task.mark_as_done"
    /\ response.code = 400
    /\ tasks[response.id].status = "TODO"
    /\ tasks[response.id].updated_at < now

----------------------------------------------------------------------------
(* Work logs: a project and a task of it, which their owner may delete, and  *)
(* the work logs of a plain user, a staff user and a user of role admin.     *)

WorkLogIds == 1 .. MaxWorkLogs

\* A payload that holds no field.
NoWorkLogData ==
    [user_id |-> OmitUser, task_id |-> Omit, project_id |-> Omit, hours_spent |-> Omit]

\* A plain user, a staff user, a user of role admin, and no user.
WLActors == {"u2", "u3", "u4", Anon}

NextWorkLog ==
    \/ ReqProjectCreate("u1", NoProjectData)
    \/ ReqTaskCreate("u1", [NoTaskData EXCEPT !.name = "a", !.project_id = 1])
    \/ \E actor \in WLActors :
          ReqWorkLogCreate(actor, [NoWorkLogData EXCEPT !.task_id = 1, !.hours_spent = 1])
    \/ \E actor \in WLActors, w \in WorkLogIds :
          ReqWorkLogUpdate(actor, w, [NoWorkLogData EXCEPT !.task_id = None,
                                                           !.project_id = 1,
                                                           !.hours_spent = 2], FALSE)
    \/ \E actor \in WLActors, w \in WorkLogIds :
          ReqWorkLogUpdate(actor, w, [NoWorkLogData EXCEPT !.hours_spent = 2], TRUE)
    \/ \E actor \in WLActors, w \in WorkLogIds : ReqWorkLogDestroy(actor, w)
    \/ \E actor \in WLActors, w \in WorkLogIds : ReqWorkLogRetrieve(actor, w)
    \/ \E actor \in WLActors : ReqWorkLogList(actor)

SpecWorkLog == Init /\ [][NextWorkLog]_vars

\* The payloads of the work logs' task and project: each given, null or
\* omitted.
XorData(hours) ==
    {[NoWorkLogData EXCEPT !.task_id = t, !.project_id = p, !.hours_spent = hours]
       : t \in {Omit, None, 1}, p \in {Omit, None, 1}}

XorActors == {"u2", "u3"}

NextWorkLogXor ==
    \/ ReqProjectCreate("u1", NoProjectData)
    \/ ReqTaskCreate("u1", [NoTaskData EXCEPT !.name = "a", !.project_id = 1])
    \/ \E t \in TaskIds : ReqTaskDestroy("u1", t)
    \/ \E p \in ProjectIds : ReqProjectDestroy("u1", p)
    \/ \E actor \in XorActors, data \in XorData(1) : ReqWorkLogCreate(actor, data)
    \/ \E actor \in XorActors, w \in WorkLogIds, data \in XorData(1) :
          ReqWorkLogUpdate(actor, w, data, FALSE)
    \/ \E actor \in XorActors, w \in WorkLogIds, data \in XorData(Omit) :
          ReqWorkLogUpdate(actor, w, data, TRUE)
    \/ \E actor \in XorActors, w \in WorkLogIds : ReqWorkLogDestroy(actor, w)

SpecWorkLogXor == Init /\ [][NextWorkLogXor]_vars

\* The task and the project a work log would have after a payload: the
\* payload's value, or the stored one (null on create) for a field it omits.
EffectiveRef(given, stored) == IF given = Omit THEN stored ELSE given

\* C4: every stored work log has exactly one of task and project; and a
\* create or an update whose effective task and project are both set or both
\* null changes nothing and stores nothing, and is answered 400 when the
\* actor may make the request (any user for a create, the recording user for
\* an update).
C4_WorkLogXor ==
    /\ [](\A w \in DOMAIN worklogs : (worklogs[w].task = None) # (worklogs[w].project = None))
    /\ [][(/\ response'.op \in {"worklog.create", "worklog.update", "worklog.partial_update"}
           /\ response'.op # "worklog.create" => response'.id \in DOMAIN worklogs
           /\ LET create == response'.op = "worklog.create"
                  stored == IF create THEN [task |-> None, project |-> None]
                            ELSE worklogs[response'.id]
                  task == EffectiveRef(response'.data.task_id, stored.task)
                  project == EffectiveRef(response'.data.project_id, stored.project)
              IN (task = None) = (project = None))
          => /\ db' = db
             /\ response'.code \notin {200, 201}
             /\ (/\ response'.actor \in Users
                 /\ response'.op # "worklog.create" =>
                       worklogs[response'.id].user = response'.actor)
                => response'.code = 400]_vars

\* C4's case: a PATCH that names a project was refused on a work log that has
\* a task, which it keeps.
C4_Witness ==
    /\ response.op = "worklog.partial_update"
    /\ response.code = 400
    /\ response.data.task_id = Omit
    /\ response.data.project_id = 1
    /\ response.id \in DOMAIN worklogs
    /\ worklogs[response.id].task = 1
    /\ worklogs[response.id].project = None

WorkLogWrites == {"worklog.update", "worklog.partial_update", "worklog.destroy"}

\* C8: a request of the work log view set changes or removes a work log only
\* for its recording user.  On the work log of another user, retrieve, update,
\* partial update and delete are answered 404 to an actor who is neither
\* staff nor of role admin, and to a staff or admin actor retrieve is answered
\* 200 and update, partial update and delete 403; none of these changes
\* anything.  The list shows a staff or admin actor every work log and any
\* other actor exactly their own.
C8_WorkLogAccess ==
    [][/\ \A w \in DOMAIN worklogs :
            (/\ response'.op \in WorkLogWrites \cup {"worklog.create"}
             /\ (w \notin DOMAIN worklogs' \/ worklogs'[w] # worklogs[w]))
            => worklogs[w].user = response'.actor
       /\ (/\ response'.op \in WorkLogWrites \cup {"worklog.retrieve"}
           /\ response'.actor \in Users
           /\ response'.id \in DOMAIN worklogs
           /\ worklogs[response'.id].user # response'.actor)
          => /\ db' = db
             /\ response'.code =
                  IF ~(is_staff(response'.actor) \/ role(response'.actor) = "admin") THEN 404
                  ELSE IF response'.op = "worklog.retrieve" THEN 200
                  ELSE 403
       /\ (response'.op = "worklog.list" /\ response'.actor \in Users)
          => /\ response'.code = 200
             /\ response'.ids =
                  IF is_staff(response'.actor) \/ role(response'.actor) = "admin"
                  THEN DOMAIN worklogs
                  ELSE {w \in DOMAIN worklogs : worklogs[w].user = response'.actor}]_vars

\* C8's case: a staff user was refused (403) the delete of another user's
\* work log, which is still there.
C8_Witness ==
    /\ response.op = "worklog.destroy"
    /\ response.code = 403
    /\ response.actor = "u3"
    /\ response.id \in DOMAIN worklogs
    /\ worklogs[response.id].user = "u2"

----------------------------------------------------------------------------
(* Task permissions: a project of u1 with manager u4, tasks assigned to u2   *)
(* or to nobody, and the staff user u3.                                      *)

PermActors == {"u1", "u2", "u3", "u4"}

NextTaskPerm ==
    \/ ReqProjectCreate("u1", [NoProjectData EXCEPT !.manager_ids = {"u4"}])
    \/ \E u \in {OmitUser, "u2"} :
          ReqTaskCreate("u1", [NoTaskData EXCEPT !.name = "a", !.project_id = 1,
                                                 !.assignee_id = u])
    \/ \E actor \in PermActors, t \in TaskIds :
          ReqTaskUpdate(actor, t, [NoTaskData EXCEPT !.name = "b", !.project_id = 1], FALSE)
    \/ \E actor \in PermActors, t \in TaskIds :
          ReqTaskUpdate(actor, t, [NoTaskData EXCEPT !.name = "b"], TRUE)
    \/ \E actor \in PermActors, t \in TaskIds : ReqTaskDestroy(actor, t)
    \/ \E actor \in PermActors, t \in TaskIds : ReqTaskRetrieve(actor, t)
    \/ \E actor \in PermActors, t \in TaskIds : ReqStartProgress(actor, t)
    \/ \E actor \in PermActors, t \in TaskIds : ReqMarkAsDone(actor, t)

SpecTaskPerm == Init /\ [][NextTaskPerm]_vars

TaskWrites == {"task.update", "task.partial_update", "task.destroy"}

\* C5: update, partial update and delete of a task are not refused (403) to
\* the task's assignee, to the owner of its project, or to a manager of its
\* project.
C5_ManagerMayWrite ==
    [][(/\ response'.op \in TaskWrites
        /\ response'.id \in DOMAIN tasks
        /\ LET obj == tasks[response'.id]
           IN \/ response'.actor = obj.assignee
              \/ response'.actor = projects[obj.project].owner
              \/ response'.actor \in projects[obj.project].managers)
       => response'.code # 403]_vars

\* C6: a user who is neither the task's assignee, nor the owner of its
\* project, nor one of its managers is refused (403) update, partial update,
\* delete, start_progress and mark_as_done, staff or not, and the refusal
\* changes nothing; a staff user's retrieve of a task is answered 200.
C6_OthersDenied ==
    [][/\ (/\ response'.op \in TaskWrites \cup {"task.start_progress", "task.mark_as_done"}
           /\ response'.id \in DOMAIN tasks
           /\ response'.actor \in Users
           /\ LET obj == tasks[response'.id]
              IN /\ response'.actor # obj.assignee
                 /\ response'.actor # projects[obj.project].owner
                 /\ response'.actor \notin projects[obj.project].managers)
          => /\ response'.code = 403
             /\ db' = db
       /\ (/\ response'.op = "task.retrieve"
           /\ response'.id \in DOMAIN tasks
           /\ is_staff(response'.actor))
          => response'.code = 200]_vars

\* C6's case: the staff user, who has no part in the task, was refused its
\* update.
C6_Witness ==
    /\ response.op = "task.update"
    /\ response.code = 403
    /\ is_staff(response.actor)
    /\ response.id \in DOMAIN tasks
    /\ tasks[response.id].assignee # response.actor
    /\ response.actor \notin projects[tasks[response.id].project].managers

----------------------------------------------------------------------------
(* Projects: created by u1 or u2, with and without the other as a manager,   *)
(* handed over, their managers replaced, and their charts asked for.         *)

ProjectActors == {"u1", "u2", Anon}

ProjectData ==
    {[NoProjectData EXCEPT !.owner_id = o, !.manager_ids = m]
       : o \in {OmitUser, "u2"}, m \in {OmitSet, {}, {"u1", "u2"}}}

Charts == {"task_status_chart", "project_velocity_chart"}

NextProject ==
    \/ \E actor \in ProjectActors, data \in ProjectData : ReqProjectCreate(actor, data)
    \/ \E actor \in ProjectActors, p \in ProjectIds, data \in ProjectData, partial \in BOOLEAN :
          ReqProjectUpdate(actor, p, data, partial)
    \/ \E actor \in ProjectActors, p \in ProjectIds : ReqProjectDestroy(actor, p)
    \/ \E actor \in ProjectActors, p \in ProjectIds : ReqProjectRetrieve(actor, p)
    \/ \E actor \in ProjectActors : ReqProjectList(actor)
    \/ \E actor \in ProjectActors, p \in ProjectIds, action \in Charts, rendered \in BOOLEAN :
          ReqProjectChart(action, actor, p, rendered)
    \/ ReqTaskCreate("u1", [NoTaskData EXCEPT !.name = "a", !.project_id = 1,
                                              !.status = "DONE", !.story_points = 5])

SpecProject == Init /\ [][NextProject]_vars

ProjectOwnerOnly ==
    {"project.update", "project.partial_update", "project.destroy",
     "project.task_status_chart", "project.project_velocity_chart"}

\* C7: update, partial update, delete and the two charts of a project are
\* refused (403) to a user if and only if the user is not the project's
\* owner at that time, whoever the managers are, and a refusal changes
\* nothing; retrieve and list are answered 200 to every user.
C7_ProjectOwnerOnly ==
    [][/\ (/\ response'.op \in ProjectOwnerOnly
           /\ response'.id \in DOMAIN projects
           /\ response'.actor \in Users)
          => /\ response'.code = 403 <=> response'.actor # projects[response'.id].owner
             /\ response'.code = 403 => db' = db
       /\ (/\ response'.op = "project.retrieve"
           /\ response'.id \in DOMAIN projects
           /\ response'.actor \in Users)
          => response'.code = 200
       /\ (response'.op = "project.list" /\ response'.actor \in Users)
          => response'.code = 200]_vars

\* C7's case: the owner, who is not among the managers, got the task status
\* chart.
C7_Witness ==
    /\ response.op = "project.task_status_chart"
    /\ response.code = 200
    /\ response.actor = projects[response.id].owner
    /\ response.actor \notin projects[response.id].managers

----------------------------------------------------------------------------
(* Teams and memberships: teams of u1 and u2, memberships given, moved to    *)
(* another team, given another role and removed.                             *)

TeamIds == 1 .. MaxTeams
MemberIds == 1 .. MaxMembers

TeamActors == {"u1", "u2", "u3", Anon}

TeamData == {[name |-> n, owner_id |-> o] : n \in {"omit", "b"}, o \in {OmitUser, "u2"}}

NoMemberData == [user_id |-> OmitUser, team_id |-> Omit, role |-> "omit"]

NextTeam ==
    \/ \E actor \in {"u1", "u2", Anon} : ReqTeamCreate(actor, [name |-> "a", owner_id |-> "u2"])
    \/ \E actor \in TeamActors, T \in TeamIds, data \in TeamData, partial \in BOOLEAN :
          ReqTeamUpdate(actor, T, data, partial)
    \/ \E actor \in TeamActors, T \in TeamIds : ReqTeamDestroy(actor, T)
    \/ \E actor \in TeamActors, T \in TeamIds : ReqTeamRetrieve(actor, T)
    \/ \E actor \in TeamActors : ReqTeamList(actor)
    \/ \E T \in TeamIds : ReqTeamMemberCreate("u1", T, [NoMemberData EXCEPT !.user_id = "u3"])

SpecTeam == Init /\ [][NextTeam]_vars

\* C9: update, partial update and delete of a team are refused (403) to
\* every user but the team's owner and the refusal changes nothing; retrieve
\* and list are answered 200 to every user; the team a request creates is
\* owned by its actor; and no request changes the owner of a team.
C9_TeamOwnerOnly ==
    [][/\ (/\ response'.op \in {"team.update", "team.partial_update", "team.destroy"}
           /\ response'.id \in DOMAIN teams
           /\ response'.actor \in Users)
          => /\ response'.actor # teams[response'.id].owner
                => response'.code = 403 /\ db' = db
             /\ response'.code \in {200, 204}
                => response'.actor = teams[response'.id].owner
       /\ (/\ response'.op = "team.retrieve"
           /\ response'.id \in DOMAIN teams
           /\ response'.actor \in Users)
          => response'.code = 200
       /\ (response'.op = "team.list" /\ response'.actor \in Users)
          => response'.code = 200
       /\ (response'.op = "team.create" /\ response'.code = 201)
          => \A T \in DOMAIN teams' \ DOMAIN teams : teams'[T].owner = response'.actor
       /\ \A T \in DOMAIN teams \cap DOMAIN teams' : teams'[T].owner = teams[T].owner]_vars

\* C9's case: a user who leads a team of their own was refused the update of
\* another's team, and that team's owner is still its creator.
C9_Witness ==
    /\ response.op = "team.update"
    /\ response.code = 403
    /\ response.id \in DOMAIN teams
    /\ teams[response.id].owner # response.actor
    /\ teams[response.id].owner = "u1"
    /\ \E T \in DOMAIN teams : teams[T].owner = response.actor

\* The memberships of the teams of u1 and u2: u3 is let in, memberships
\* get another role, another user or another team, and are removed.
NextTeamMember ==
    \/ \E actor \in {"u1", "u2"} : ReqTeamCreate(actor, [name |-> "a", owner_id |-> OmitUser])
    \/ \E actor \in Users \ {"u4"}, T \in TeamIds, u \in {OmitUser, "u3"} :
          ReqTeamMemberCreate(actor, T, [NoMemberData EXCEPT !.user_id = u])
    \/ \E actor \in Users \ {"u4"}, T \in TeamIds, m \in MemberIds :
          ReqTeamMemberUpdate(actor, T, m, [NoMemberData EXCEPT !.user_id = "u3"], FALSE)
    \/ \E actor \in Users \ {"u4"}, T \in TeamIds, m \in MemberIds, data \in
             {[NoMemberData EXCEPT !.role = "lead"], [NoMemberData EXCEPT !.team_id = 2]} :
          ReqTeamMemberUpdate(actor, T, m, data, TRUE)
    \/ \E actor \in Users \ {"u4"}, T \in TeamIds, m \in MemberIds :
          ReqTeamMemberDestroy(actor, T, m)
    \/ \E T \in TeamIds, m \in MemberIds : ReqTeamMemberRetrieve(Anon, T, m)

SpecTeamMember == Init /\ [][NextTeamMember]_vars

MemberOps ==
    {"member.create", "member.update", "member.partial_update", "member.destroy",
     "member.retrieve"}

\* C10: a membership of team T is created only for T's owner and removed
\* only for T's owner; its update and partial update are refused (403) if
\* and only if the actor is neither the membership's user nor T's owner; and
\* a request that is refused leaves every membership as it was.
C10_MemberAccess ==
    [][response'.op \in MemberOps /\ response'.team \in DOMAIN teams
       => LET T == response'.team
              m == response'.id
              actor == response'.actor
          IN /\ (response'.op = "member.create" /\ actor # teams[T].owner)
                => response'.code # 201 /\ members' = members
             /\ (/\ response'.op = "member.destroy"
                 /\ m \in TeamMemberQueryset(T)
                 /\ actor \in Users
                 /\ actor # teams[T].owner)
                => response'.code = 403 /\ members' = members
             /\ (/\ response'.op \in {"member.update", "member.partial_update"}
                 /\ m \in TeamMemberQueryset(T)
                 /\ actor \in Users)
                => (response'.code = 403
                      <=> actor # members[m].user /\ actor # teams[T].owner)
             /\ response'.code \notin {200, 201, 204} => db' = db]_vars

\* C10's case: a member of a team that another user owns changed their own
\* membership, which is still in that team.
C10_Witness ==
    /\ response.op = "member.partial_update"
    /\ response.code = 200
    /\ response.id \in DOMAIN members
    /\ members[response.id].user = response.actor
    /\ members[response.id].team = response.team
    /\ teams[members[response.id].team].owner # response.actor

----------------------------------------------------------------------------
(* Comments: u1's tasks are commented by u1 and u2, with payloads that name  *)
(* another author and another task; comments are edited and removed, and a   *)
(* task is deleted under its comments.                                       *)

CommentIds == 1 .. MaxComments

CommentActors == {"u1", "u2", Anon}

CommentData ==
    {[comment |-> "omit", user_id |-> OmitUser, task_id |-> Omit],
     [comment |-> "a", user_id |-> OmitUser, task_id |-> Omit],
     [comment |-> "b", user_id |-> "u1", task_id |-> 2],
     [comment |-> "b", user_id |-> "u2", task_id |-> 1]}

NextComment ==
    \/ ReqProjectCreate("u1", NoProjectData)
    \/ ReqTaskCreate("u1", [NoTaskData EXCEPT !.name = "a", !.project_id = 1])
    \/ ReqTaskDestroy("u1", 1)
    \/ \E actor \in CommentActors, t \in TaskIds, data \in CommentData :
          ReqTaskCommentCreate(actor, t, data)
    \/ \E actor \in CommentActors, t \in TaskIds, c \in CommentIds, data \in CommentData,
          partial \in BOOLEAN :
          ReqTaskCommentUpdate(actor, t, c, data, partial)
    \/ \E actor \in CommentActors, t \in TaskIds, c \in CommentIds :
          ReqTaskCommentDestroy(actor, t, c)
    \/ \E actor \in CommentActors, t \in TaskIds, c \in CommentIds :
          ReqTaskCommentRetrieve(actor, t, c)

SpecComment == Init /\ [][NextComment]_vars

\* C11: a comment is created with the actor as its user and the task of the
\* URL as its task, whatever the payload says; update, partial update and
\* delete of a comment are refused (403) to every user but its author and the
\* refusal changes nothing; no request changes the user or the task of a
\* comment; and every user's retrieve of a comment is answered 200.
C11_CommentAuthorOnly ==
    [][/\ (response'.op = "comment.create" /\ response'.code = 201)
          => /\ Cardinality(DOMAIN comments' \ DOMAIN comments) = 1
             /\ \A c \in DOMAIN comments' \ DOMAIN comments :
                   /\ comments'[c].user = response'.actor
                   /\ comments'[c].task = response'.task
       /\ (/\ response'.op \in {"comment.update", "comment.partial_update", "comment.destroy"}
           /\ response'.id \in TaskCommentQueryset(response'.task)
           /\ response'.actor \in Users
           /\ response'.actor # comments[response'.id].user)
          => response'.code = 403 /\ db' = db
       /\ (/\ response'.op \in {"comment.update", "comment.partial_update", "comment.destroy"}
           /\ response'.code \in {200, 204})
          => response'.actor = comments[response'.id].user
       /\ (/\ response'.op = "comment.retrieve"
           /\ response'.id \in TaskCommentQueryset(response'.task)
           /\ response'.actor \in Users)
          => response'.code = 200
       /\ \A c \in DOMAIN comments \cap DOMAIN comments' :
             /\ comments'[c].user = comments[c].user
             /\ comments'[c].task = comments[c].task]_vars

\* C11's case: a comment was created from a payload that names another user
\* and another task than the actor and the task of the URL.
C11_Witness ==
    /\ response.op = "comment.create"
    /\ response.code = 201
    /\ response.data.user_id \in Users \ {response.actor}
    /\ response.data.task_id \in TaskIds \ {response.task}

----------------------------------------------------------------------------
(* The task log: tasks of two projects are created, edited field by field,   *)
(* sent again with the values they have, moved through their statuses, and   *)
(* deleted alone or with their project.                                      *)

LogActors == {"u1", Anon}

LogCreateData ==
    {[NoTaskData EXCEPT !.name = "a", !.project_id = 1],
     [NoTaskData EXCEPT !.name = "a", !.project_id = 1, !.assignee_id = "u2", !.deadline = 1],
     [NoTaskData EXCEPT !.project_id = 1, !.status = "started"]}

LogPatchData ==
    {[NoTaskData EXCEPT !.name = "b"],
     [NoTaskData EXCEPT !.status = "DONE"],
     [NoTaskData EXCEPT !.project_id = 2],
     [NoTaskData EXCEPT !.assignee_id = "u2"],
     [NoTaskData EXCEPT !.deadline = 1]}

NextTaskLog ==
    \/ ReqProjectCreate("u1", NoProjectData)
    \/ \E actor \in LogActors, data \in LogCreateData : ReqTaskCreate(actor, data)
    \/ \E actor \in LogActors, t \in TaskIds, data \in LogPatchData :
          ReqTaskUpdate(actor, t, data, TRUE)
    \/ \E actor \in LogActors, t \in TaskIds :
          ReqTaskUpdate(actor, t, [NoTaskData EXCEPT !.name = "a", !.project_id = 1], FALSE)
    \/ \E t \in TaskIds : ReqStartProgress("u1", t)
    \/ \E t \in TaskIds : ReqMarkAsDone("u1", t)
    \/ \E t \in TaskIds : ReqTaskDestroy("u1", t)
    \/ \E p \in ProjectIds : ReqProjectDestroy("u1", p)

SpecTaskLog == Init /\ [][NextTaskLog]_vars

\* The rows the step appends to the TaskHistory.
NewRows == SubSeq(history', Len(history) + 1, Len(history'))

\* C12: the TaskHistory is append-only: every step leaves the rows there are
\* as they are and where they are, and adds rows after them only.
C12_HistoryAppendOnly ==
    [][/\ Len(history') >= Len(history)
       /\ SubSeq(history', 1, Len(history)) = history]_vars

\* C13: a task creation that succeeds appends exactly one TaskHistory row,
\* of the new task, with the actor as its user, no field_changed and the
\* description of a creation; a creation that does not succeed appends none.
C13_CreateLogged ==
    [][response'.op = "task.create"
       => IF response'.code = 201
          THEN /\ Cardinality(DOMAIN tasks' \ DOMAIN tasks) = 1
               /\ \E t \in DOMAIN tasks' \ DOMAIN tasks :
                     history' = Append(history,
                                       [task |-> t, user |-> response'.actor,
                                        field_changed |-> NoText, old_value |-> NoText,
                                        new_value |-> NoText,
                                        change_description |-> "created"])
          ELSE history' = history /\ tasks' = tasks]_vars

\* C13's case: a task was created and the last row of the history is that of
\* its creation by the actor.
C13_Witness ==
    /\ response.op = "task.create"
    /\ response.code = 201
    /\ Len(history) > 0
    /\ history[Len(history)].change_description = "created"
    /\ history[Len(history)].user = response.actor
    /\ history[Len(history)].task \in DOMAIN tasks

\* The tracked fields of a task of the model, and the name each has in
\* field_changed.
TrackedFields ==
    {"name", "status", "story_points", "deadline", "assignee", "project", "parent_task"}

\* C14: a generic update that succeeds appends, for every tracked field whose
\* value it changes, exactly one TaskHistory row that names the field, with
\* the actor as its user.
C14_ChangesLogged ==
    [][(/\ response'.op \in {"task.update", "task.partial_update"}
        /\ response'.code = 200)
       => /\ history' = history \o NewRows
          /\ \A f \in TrackedFields :
                tasks'[response'.id][f] # tasks[response'.id][f]
                => Cardinality({i \in DOMAIN NewRows :
                                  /\ NewRows[i].field_changed = f
                                  /\ NewRows[i].task = response'.id
                                  /\ NewRows[i].user = response'.actor}) = 1]_vars

\* C15: a generic update that succeeds appends no TaskHistory row for a
\* tracked field whose value it does not change.
C15_UnchangedNotLogged ==
    [][(/\ response'.op \in {"task.update", "task.partial_update"}
        /\ response'.code = 200)
       => \A f \in TrackedFields :
             tasks'[response'.id][f] = tasks[response'.id][f]
             => \A i \in DOMAIN NewRows : NewRows[i].field_changed # f]_vars

\* C18: a step that changes the status of a task changes it from TODO to
\* IN_PROGRESS or from IN_PROGRESS to DONE.
C18_LegalTransitions ==
    [][\A t \in DOMAIN tasks \cap DOMAIN tasks' :
          tasks'[t].status # tasks[t].status
          => \/ tasks[t].status = "TODO" /\ tasks'[t].status = "IN_PROGRESS"
             \/ tasks[t].status = "IN_PROGRESS" /\ tasks'[t].status = "DONE"]_vars

----------------------------------------------------------------------------
(* The task tree: tasks are created under one another and given another      *)
(* parent, themselves included.                                              *)

TreeActors == {"u1", "u2"}

NextTaskTree ==
    \/ ReqProjectCreate("u1", NoProjectData)
    \/ \E parent \in {Omit, 1, 2} :
          ReqTaskCreate("u1", [NoTaskData EXCEPT !.name = "a", !.project_id = 1,
                                                 !.parent_task_id = parent])
    \/ \E actor \in TreeActors, t \in TaskIds, parent \in {None, 1, 2} :
          ReqTaskUpdate(actor, t, [NoTaskData EXCEPT !.parent_task_id = parent], TRUE)
    \/ \E actor \in TreeActors, t \in TaskIds, parent \in {Omit, 1, 2} :
          ReqTaskUpdate(actor, t, [NoTaskData EXCEPT !.name = "a", !.project_id = 1,
                                                     !.parent_task_id = parent], FALSE)
    \/ \E t \in TaskIds : ReqTaskDestroy("u1", t)

SpecTaskTree == Init /\ [][NextTaskTree]_vars

\* C16: no task is its own parent, and an update or partial update whose
\* parent_task_id is the task's own id is refused with 400 to the users who
\* may update the task (403 to the others) and changes nothing.
C16_NotOwnParent ==
    /\ [](\A t \in DOMAIN tasks : tasks[t].parent_task # t)
    /\ [][(/\ response'.op \in {"task.update", "task.partial_update"}
           /\ response'.id \in DOMAIN tasks
           /\ response'.data.parent_task_id = response'.id)
          => /\ db' = db
             /\ response'.code =
                  IF AssigneeOrOwner(response'.actor, tasks[response'.id]) THEN 400
                  ELSE 403]_vars

\* C16's case: the owner's PATCH that makes a task, which has a parent
\* already, its own parent was refused.
C16_Witness ==
    /\ response.op = "task.partial_update"
    /\ response.code = 400
    /\ response.id \in DOMAIN tasks
    /\ response.data.parent_task_id = response.id
    /\ tasks[response.id].parent_task \in DOMAIN tasks

\* The tasks above task t: its parent, the parent's parent, and so on.
RECURSIVE Ancestors(_, _)
Ancestors(S, n) ==
    LET more == S \cup ({tasks[t].parent_task : t \in S \cap DOMAIN tasks} \ {None})
    IN IF n = 0 \/ more = S THEN S ELSE Ancestors(more, n - 1)

\* C17: the parent relation of the tasks has no cycle: no task is among the
\* tasks above it.
C17_Acyclic ==
    \A t \in DOMAIN tasks :
       tasks[t].parent_task # None
       => t \notin Ancestors({tasks[t].parent_task}, MaxTasks + 1)

----------------------------------------------------------------------------
(* The reports: tasks of two projects, done or not, with and without story   *)
(* points, and the four charts asked for by the owner, another user and an   *)
(* unauthenticated client, with a renderer that gives a URL or fails.        *)

ChartActors == {"u1", "u2", Anon}

ChartTaskData ==
    {[NoTaskData EXCEPT !.name = "a", !.project_id = p, !.status = st, !.story_points = sp,
                        !.assignee_id = "u2"]
       : p \in ProjectIds, st \in {"omit", "DONE"}, sp \in {Omit, 3}}

NextChart ==
    \/ Tick
    \/ ReqProjectCreate("u1", NoProjectData)
    \/ \E data \in ChartTaskData : ReqTaskCreate("u1", data)
    \/ \E actor \in ChartActors, p \in ProjectIds, action \in Charts, rendered \in BOOLEAN :
          ReqProjectChart(action, actor, p, rendered)
    \/ \E actor \in ChartActors, rendered \in BOOLEAN : ReqBusinessStatistics(actor, rendered)
    \/ \E actor \in ChartActors, rendered \in BOOLEAN : ReqUserPersonalStats(actor, rendered)

SpecChart == Init /\ [][NextChart]_vars

ChartOps ==
    {"project.task_status_chart", "project.project_velocity_chart", "statistics.business",
     "statistics.personal"}

\* The tasks of project p.
TasksOf(p) == {t \in DOMAIN tasks : tasks[t].project = p}

RECURSIVE SumSeq(_)
SumSeq(q) == IF q = << >> THEN 0 ELSE Head(q) + SumSeq(Tail(q))

\* C20: the task status chart of a project without tasks is answered 404 to
\* its owner; that of a project with tasks calls the renderer with one label
\* for every status a task of the project has and no other, no label twice,
\* each label's value the number of the project's tasks with that status, and
\* values that sum to the number of the project's tasks.
C20_TaskStatusReport ==
    [][(/\ response'.op = "project.task_status_chart"
        /\ response'.id \in DOMAIN projects
        /\ response'.actor = projects[response'.id].owner)
       => IF TasksOf(response'.id) = {}
          THEN response'.code = 404 /\ response'.charts = << >>
          ELSE /\ Len(response'.charts) = 1
               /\ LET report == response'.charts[1]
                      P == TasksOf(response'.id)
                  IN /\ DOMAIN report.labels = DOMAIN report.data
                     /\ {report.labels[i] : i \in DOMAIN report.labels}
                          = {tasks[t].status : t \in P}
                     /\ \A i, j \in DOMAIN report.labels :
                           report.labels[i] = report.labels[j] => i = j
                     /\ \A i \in DOMAIN report.labels :
                           report.data[i] =
                             Cardinality({t \in P : tasks[t].status = report.labels[i]})
                     /\ SumSeq(report.data) = Cardinality(P)]_vars

\* C20's case: the chart of a project whose one task was updated on an
\* earlier day was rendered while another project has a task too.
C20_Witness ==
    /\ response.op = "project.task_status_chart"
    /\ response.code = 200
    /\ Len(response.charts) = 1
    /\ response.charts[1].data = <<1>>
    /\ \E t \in DOMAIN tasks : tasks[t].project # response.id
    /\ \E t \in TasksOf(response.id) : tasks[t].updated_at < now

----------------------------------------------------------------------------
(* The velocity chart: the owner's tasks in two projects, done or not, with  *)
(* story points or without, created days, weeks and a quarter apart.         *)

\* A week, and a day more than VelocityDays days.
LaterDays == {7, 91}

VelocityTaskData ==
    {[NoTaskData EXCEPT !.name = "a", !.project_id = 1, !.status = "DONE", !.story_points = 3],
     [NoTaskData EXCEPT !.name = "a", !.project_id = 1, !.status = "DONE", !.story_points = 5],
     [NoTaskData EXCEPT !.name = "a", !.project_id = 1, !.status = "DONE"],
     [NoTaskData EXCEPT !.name = "a", !.project_id = 1, !.story_points = 3],
     [NoTaskData EXCEPT !.name = "a", !.project_id = 2, !.status = "DONE", !.story_points = 3]}

NextVelocity ==
    \/ Tick
    \/ \E days \in LaterDays : Later(days)
    \/ ReqProjectCreate("u1", NoProjectData)
    \/ \E data \in VelocityTaskData : ReqTaskCreate("u1", data)
    \/ \E p \in ProjectIds, rendered \in BOOLEAN :
          ReqProjectChart("project_velocity_chart", "u1", p, rendered)

SpecVelocity == Init /\ [][NextVelocity]_vars

\* The tasks of project p that qualify for its velocity: done, with story
\* points, updated at most 90 days ago.
Qualifying(p) ==
    {t \in DOMAIN tasks : /\ tasks[t].project = p
                          /\ tasks[t].status = "DONE"
                          /\ tasks[t].story_points # None
                          /\ now - tasks[t].updated_at <= 90}

\* The week of task t's update.
WeekOf(t) == tasks[t].updated_at \div 7

\* The sum of the story points of the tasks in S.
RECURSIVE Points(_)
Points(S) ==
    IF S = {} THEN 0
    ELSE LET t == CHOOSE x \in S : TRUE IN tasks[t].story_points + Points(S \ {t})

\* C21: the velocity chart of a project, asked for by its owner, is answered
\* 404 without a call of the renderer when no task qualifies; otherwise the
\* renderer is called with one entry for every week that holds the update of
\* a qualifying task and no other, the weeks ascending, each entry's value
\* the sum of the story points of the qualifying tasks of its week, and the
\* values' total the sum of the story points of all qualifying tasks.  Tasks
\* that are not done, have no story points, belong to another project or were
\* updated more than 90 days ago are in no entry.
C21_VelocitySeries ==
    [][(/\ response'.op = "project.project_velocity_chart"
        /\ response'.id \in DOMAIN projects
        /\ response'.actor = projects[response'.id].owner)
       => LET Q == Qualifying(response'.id)
          IN IF Q = {}
             THEN response'.code = 404 /\ response'.charts = << >>
             ELSE /\ Len(response'.charts) = 1
                  /\ LET report == response'.charts[1]
                     IN /\ DOMAIN report.labels = DOMAIN report.data
                        /\ {report.labels[i] : i \in DOMAIN report.labels}
                             = {WeekOf(t) : t \in Q}
                        /\ \A i, j \in DOMAIN report.labels :
                              i < j => report.labels[i] < report.labels[j]
                        /\ \A i \in DOMAIN report.labels :
                              report.data[i] =
                                Points({t \in Q : WeekOf(t) = report.labels[i]})
                        /\ SumSeq(report.data) = Points(Q)]_vars

\* C21's case: the chart of a project was rendered with the one entry of its
\* task of this week, while the project has a done task with story points
\* that is more than 90 days old.
C21_Witness ==
    /\ response.op = "project.project_velocity_chart"
    /\ response.code = 200
    /\ Len(response.charts) = 1
    /\ response.charts[1].data = <<5>>
    /\ \E t \in DOMAIN tasks : /\ tasks[t].project = response.id
                                /\ tasks[t].status = "DONE"
                                /\ tasks[t].story_points # None
                                /\ now - tasks[t].updated_at > 90

----------------------------------------------------------------------------
(* The personal chart: tasks assigned to two users, done or not, created     *)
(* days, a month and more than a year apart.                                 *)

\* A month, and a day more than YearDays days.
PersonalLaterDays == {30, 366}

PersonalActors == {"u1", "u2"}

PersonalTaskData ==
    {[NoTaskData EXCEPT !.name = "a", !.project_id = 1, !.status = st, !.assignee_id = u]
       : st \in {"omit", "DONE"}, u \in PersonalActors}

NextPersonal ==
    \/ Tick
    \/ \E days \in PersonalLaterDays : Later(days)
    \/ ReqProjectCreate("u1", NoProjectData)
    \/ \E data \in PersonalTaskData : ReqTaskCreate("u1", data)
    \/ \E actor \in PersonalActors, rendered \in BOOLEAN : ReqUserPersonalStats(actor, rendered)

SpecPersonal == Init /\ [][NextPersonal]_vars

\* The tasks user u completed in the last 365 days.
Completed(u) ==
    {t \in DOMAIN tasks : /\ tasks[t].assignee = u
                          /\ tasks[t].status = "DONE"
                          /\ now - tasks[t].updated_at <= 365}

\* The month of task t's update.
MonthOf(t) == tasks[t].updated_at \div 30

\* C22: the personal chart of a user who completed no task in the last 365
\* days is answered 404 without a call of the renderer; otherwise the
\* renderer is called with one entry for every month that holds the update of
\* a task the user completed in the last 365 days and no other, the months
\* ascending, each entry's value the number of those tasks of its month, and
\* the values' total the number of those tasks.  Tasks of other assignees,
\* tasks not done and tasks updated more than 365 days ago are not counted.
C22_PersonalSeries ==
    [][(response'.op = "statistics.personal" /\ response'.actor \in Users)
       => LET Mine == Completed(response'.actor)
          IN IF Mine = {}
             THEN response'.code = 404 /\ response'.charts = << >>
             ELSE /\ Len(response'.charts) = 1
                  /\ LET report == response'.charts[1]
                     IN /\ DOMAIN report.labels = DOMAIN report.data
                        /\ {report.labels[i] : i \in DOMAIN report.labels}
                             = {MonthOf(t) : t \in Mine}
                        /\ \A i, j \in DOMAIN report.labels :
                              i < j => report.labels[i] < report.labels[j]
                        /\ \A i \in DOMAIN report.labels :
                              report.data[i] =
                                Cardinality({t \in Mine : MonthOf(t) = report.labels[i]})
                        /\ SumSeq(report.data) = Cardinality(Mine)]_vars

\* C22's case: a user's chart was rendered with one entry of one task while
\* another user has a done task of the same month.
C22_Witness ==
    /\ response.op = "statistics.personal"
    /\ response.code = 200
    /\ Len(response.charts) = 1
    /\ response.charts[1].data = <<1>>
    /\ \E t \in DOMAIN tasks : /\ tasks[t].assignee \in Users \ {response.actor}
                                /\ tasks[t].status = "DONE"
                                /\ MonthOf(t) = response.charts[1].labels[1]

----------------------------------------------------------------------------
(* The owner dashboard: projects of two owners, active or not, with tasks in *)
(* the counted statuses and in another, asked for by every kind of user.     *)

DashProjectData == {[NoProjectData EXCEPT !.status = st] : st \in {"omit", "draft"}}

DashTaskData ==
    {[NoTaskData EXCEPT !.name = "a", !.project_id = p, !.status = st]
       : p \in ProjectIds, st \in {"omit", "IN_PROGRESS", "DONE", "in_review"}}

NextOwnerDash ==
    \/ \E actor \in {"u1", "u3"}, data \in DashProjectData : ReqProjectCreate(actor, data)
    \/ \E data \in DashTaskData : ReqTaskCreate("u1", data)
    \/ \E actor \in Users \cup {Anon} : ReqOwnerDashboard(actor)

SpecOwnerDash == Init /\ [][NextOwnerDash]_vars

\* The projects user u owns and the tasks in them.
Owned(u) == {p \in DOMAIN projects : projects[p].owner = u}
OwnedTasks(u) == {t \in DOMAIN tasks : tasks[t].project \in Owned(u)}

\* C23: the owner dashboard is answered 403 to a user who is neither of role
\* owner nor staff, and to the others with total_projects the number of the
\* projects the actor owns, active_projects the number of those with status
\* active, tasks_todo, tasks_inprogress and tasks_done the numbers of the tasks
\* in those projects with status TODO, IN_PROGRESS and DONE, total_tasks the
\* number of the tasks in those projects, and projects_list those projects;
\* the three numbers by status never sum to more than total_tasks.
C23_OwnerDashboard ==
    [][(response'.op = "dashboard.owner" /\ response'.actor \in Users)
       => LET u == response'.actor
              stats == response'.body.summary_stats
              with(st) == Cardinality({t \in OwnedTasks(u) : tasks[t].status = st})
          IN IF ~(role(u) = "owner" \/ is_staff(u))
             THEN response'.code = 403 /\ response'.body = << >>
             ELSE /\ response'.code = 200
                  /\ stats.total_projects = Cardinality(Owned(u))
                  /\ stats.active_projects =
                        Cardinality({p \in Owned(u) : projects[p].status = "active"})
                  /\ stats.tasks_todo = with("TODO")
                  /\ stats.tasks_inprogress = with("IN_PROGRESS")
                  /\ stats.tasks_done = with("DONE")
                  /\ stats.total_tasks = Cardinality(OwnedTasks(u))
                  /\ response'.body.projects_list = Owned(u)
                  /\ stats.tasks_todo + stats.tasks_inprogress + stats.tasks_done
                        <= stats.total_tasks
                  /\ db' = db]_vars

\* C23's case: the dashboard of a user who owns one of two projects was
\* answered with one project and one task, while the other owner's project
\* has a task too.
C23_Witness ==
    /\ response.op = "dashboard.owner"
    /\ response.code = 200
    /\ response.body.summary_stats.total_projects = 1
    /\ response.body.summary_stats.total_tasks = 1
    /\ Cardinality(DOMAIN projects) = 2
    /\ Cardinality(DOMAIN tasks) = 2

----------------------------------------------------------------------------
(* The employee dashboard: teams of one owner with a second member, projects *)
(* with and without a team, tasks assigned or not, open or done.             *)

EmpProjectData == {[NoProjectData EXCEPT !.team = ts] : ts \in {OmitIds, {1}}}

EmpTaskData ==
    {[NoTaskData EXCEPT !.name = "a", !.project_id = p, !.status = st, !.assignee_id = u]
       : p \in ProjectIds, st \in {"omit", "DONE"}, u \in {OmitUser, "u2"}}

NextEmployeeDash ==
    \/ ReqTeamCreate("u1", [name |-> "b", owner_id |-> OmitUser])
    \/ \E T \in TeamIds : ReqTeamMemberCreate("u1", T, [NoMemberData EXCEPT !.user_id = "u2"])
    \/ \E T \in TeamIds : ReqTeamDestroy("u1", T)
    \/ \E data \in EmpProjectData : ReqProjectCreate("u1", data)
    \/ \E data \in EmpTaskData : ReqTaskCreate("u1", data)
    \/ \E actor \in {"u1", "u2", "u3", Anon} : ReqEmployeeDashboard(actor)

SpecEmployeeDash == Init /\ [][NextEmployeeDash]_vars

\* The teams user u is a member of, the projects that hold a task assigned to
\* u or have one of those teams, and the open tasks assigned to u.
TeamsOf(u) == {members[m].team : m \in {x \in DOMAIN members : members[x].user = u}}
ProjectsOf(u) ==
    {p \in DOMAIN projects :
        \/ \E t \in DOMAIN tasks : tasks[t].project = p /\ tasks[t].assignee = u
        \/ projects[p].team \cap TeamsOf(u) # {}}
OpenTasksOf(u) ==
    {t \in DOMAIN tasks : tasks[t].assignee = u /\ tasks[t].status \in {"TODO", "IN_PROGRESS"}}

\* The elements of sequence q, and q holds none of them twice.
Range(q) == {q[i] : i \in DOMAIN q}
NoRepeat(q) == \A i, j \in DOMAIN q : q[i] = q[j] => i = j

\* C24: the employee dashboard of an authenticated user is answered 200 with
\* my_projects the projects that hold a task assigned to the user or have a
\* team the user is a member of, each once, my_teams the teams the user is a
\* member of, each once, and my_current_tasks the tasks assigned to the user
\* whose status is TODO or IN_PROGRESS, each once; a user without teams and
\* without assigned tasks gets three empty lists; nothing is changed.
C24_EmployeeDashboard ==
    [][(response'.op = "dashboard.employee" /\ response'.actor \in Users)
       => LET u == response'.actor
              body == response'.body
          IN /\ response'.code = 200
             /\ Range(body.my_projects) = ProjectsOf(u) /\ NoRepeat(body.my_projects)
             /\ Range(body.my_teams) = TeamsOf(u) /\ NoRepeat(body.my_teams)
             /\ Range(body.my_current_tasks) = OpenTasksOf(u)
             /\ NoRepeat(body.my_current_tasks)
             /\ (/\ TeamsOf(u) = {}
                 /\ ~\E t \in DOMAIN tasks : tasks[t].assignee = u)
                => /\ body.my_projects = << >>
                   /\ body.my_teams = << >>
                   /\ body.my_current_tasks = << >>
             /\ db' = db]_vars

\* C24's case: the dashboard of a user lists once a project that holds a task
\* assigned to the user and has a team of the user, and a second project that
\* only holds a task assigned to the user, which is done.
C24_Witness ==
    /\ response.op = "dashboard.employee"
    /\ response.code = 200
    /\ Len(response.body.my_projects) = 2
    /\ Len(response.body.my_teams) = 1
    /\ response.body.my_current_tasks = <<1>>
    /\ \E p \in DOMAIN projects :
          /\ projects[p].team \cap TeamsOf(response.actor) # {}
          /\ \E t \in DOMAIN tasks : tasks[t].project = p /\ tasks[t].assignee = response.actor

----------------------------------------------------------------------------
(* Authentication: two users log in and out, and requests present a key, a   *)
(* key that was deleted or never issued, or none.                            *)

Keys == 1 .. MaxTokens

TokenOps ==
    {"auth.logout", "profile", "project.list", "project.create", "team.create",
     "dashboard.employee"}

NextAuth ==
    \/ \E u \in {"u1", "u2"}, password_ok \in BOOLEAN : ReqLogin(u, password_ok)
    \/ \E op \in TokenOps, key \in Keys \cup {None} : ReqWithToken(op, key)

SpecAuth == Init /\ [][NextAuth]_vars

\* C25: a request to an endpoint other than login that presents no key, or a
\* key that no token has, is answered 401 and changes nothing, and one that
\* presents the key of a token is not answered 401; a logout that presents the
\* key of a token is answered 200 and deletes that token and nothing else; and
\* a key whose token was deleted is the key of no later token, so every later
\* request that presents it is answered 401, whoever logs in.
C25_TokenRequired ==
    [][/\ response'.op \in TokenOps
          => /\ response'.key \notin DOMAIN tokens
                => response'.code = 401 /\ db' = db
             /\ response'.key \in DOMAIN tokens => response'.code # 401
             /\ (response'.op = "auth.logout" /\ response'.key \in DOMAIN tokens)
                => /\ response'.code = 200
                   /\ tokens' = Without(tokens, {response'.key})
                   /\ <<projects, teams, members>>' = <<projects, teams, members>>
       /\ \A k \in Keys : (k < nextId.token /\ k \notin DOMAIN tokens) => k \notin DOMAIN tokens'
      ]_vars

\* C25's case: a second logout with a key whose token the first logout
\* deleted was answered 401, after the same user logged in again and got
\* another token.
C25_Witness ==
    /\ response.op = "auth.logout"
    /\ response.code = 401
    /\ response.key \in Keys
    /\ response.key < nextId.token
    /\ \E k \in DOMAIN tokens : k > response.key /\ tokens[k] = "u1"
    /\ \A k \in DOMAIN tokens : tokens[k] = "u1"

----------------------------------------------------------------------------
(* Failures: requests that are refused for want of a credential, of a right, *)
(* of the row, of a valid payload or of a legal transition, among requests   *)
(* that succeed, on projects, tasks, teams, memberships and tokens.          *)

FailActors == {"u1", "u2", Anon}

FailProjectData == {NoProjectData, [NoProjectData EXCEPT !.status = "archived"]}

FailTaskData ==
    {[NoTaskData EXCEPT !.name = "a", !.project_id = 1],
     [NoTaskData EXCEPT !.name = "a"]}

NextFail ==
    \/ \E actor \in {"u1", Anon}, data \in FailProjectData : ReqProjectCreate(actor, data)
    \/ \E data \in FailTaskData : ReqTaskCreate("u1", data)
    \/ \E actor \in FailActors, t \in TaskIds : ReqStartProgress(actor, t)
    \/ \E actor \in FailActors, t \in TaskIds : ReqMarkAsDone(actor, t)
    \/ \E actor \in {"u1", Anon}, n \in {"omit", "b"} :
          ReqTeamCreate(actor, [name |-> n, owner_id |-> OmitUser])
    \/ \E actor \in FailActors, T \in TeamIds, u \in {OmitUser, "u2"} :
          ReqTeamMemberCreate(actor, T, [NoMemberData EXCEPT !.user_id = u])
    \/ \E actor \in FailActors, T \in TeamIds, m \in MemberIds :
          ReqTeamMemberDestroy(actor, T, m)
    \/ \E password_ok \in BOOLEAN : ReqLogin("u1", password_ok)
    \/ \E key \in {1, None} : ReqWithToken("auth.logout", key)

SpecFail == Init /\ [][NextFail]_vars

\* The answers Unauthenticated, Forbidden, NotFound, and ValidationFailed or
\* InvalidTransition.
Failures == {401, 403, 404, 400}

\* C26: a request that is answered 401, 403, 404 or 400 leaves every table as
\* it was, the keys to come included: no row is added, changed or removed.
C26_FailureChangesNothing ==
    [][response'.code \in Failures => db' = db /\ nextId' = nextId]_vars

\* C26's case: the owner's last lead membership was asked to be deleted and
\* the request answered 400, after a member was added, a task finished and the
\* user logged out.
C26_Witness ==
    /\ response.op = "member.destroy"
    /\ response.code = 400
    /\ response.id \in DOMAIN members
    /\ Cardinality(DOMAIN members) = 2
    /\ \E t \in DOMAIN tasks : tasks[t].status = "DONE"
    /\ nextId.token = 2 /\ tokens = << >>

----------------------------------------------------------------------------
(* The memberships are unique per user and team (SpecTeamMember).            *)

\* Membership row `row` is that of a user who is a member of the row's team
\* by another membership than m.
Duplicate(m, row) ==
    \E k \in DOMAIN members \ {m} :
       members[k].user = row.user /\ members[k].team = row.team

\* C27: no two memberships have the same user and team; a membership asked
\* for a user who is a member of the team already is not created, and an
\* update or partial update that would make a membership that of a user who
\* is a member of its team already is not applied: both fail and leave every
\* membership as it was.
C27_MemberUnique ==
    /\ [](\A m, k \in DOMAIN members :
             (members[m].user = members[k].user /\ members[m].team = members[k].team)
             => m = k)
    /\ [][(/\ response'.op = "member.create"
           /\ response'.data.user_id \in Users
           /\ Duplicate(None, [user |-> response'.data.user_id, team |-> response'.team]))
          => response'.code \notin {200, 201} /\ members' = members /\ nextId' = nextId]_vars
    /\ [][(/\ response'.op \in {"member.update", "member.partial_update"}
           /\ response'.id \in DOMAIN members
           /\ LET old == members[response'.id]
                  data == response'.data
              IN Duplicate(response'.id,
                           [user |-> IF data.user_id = OmitUser THEN old.user
                                     ELSE data.user_id,
                            team |-> IF data.team_id = Omit THEN old.team
                                     ELSE data.team_id]))
          => response'.code \notin {200, 201} /\ members' = members]_vars

\* C27's case: the owner of a team asked a second time for the membership of
\* a user and was refused, and the user's one membership is still there.
C27_Witness ==
    /\ response.op = "member.create"
    /\ response.code = 400
    /\ response.team \in DOMAIN teams
    /\ response.actor = teams[response.team].owner
    /\ response.data.user_id = "u3"
    /\ Cardinality({m \in DOMAIN members :
                      members[m].user = "u3" /\ members[m].team = response.team}) = 1

----------------------------------------------------------------------------
(* The update time of a task: a task is created, moved through its statuses  *)
(* and edited by generic updates that leave its status alone, days apart.    *)

ClockPatchData ==
    {[NoTaskData EXCEPT !.name = "a"],
     [NoTaskData EXCEPT !.name = "b"],
     [NoTaskData EXCEPT !.assignee_id = "u2"]}

NextTaskClock ==
    \/ Tick
    \/ ReqProjectCreate("u1", NoProjectData)
    \/ ReqTaskCreate("u1", [NoTaskData EXCEPT !.name = "a", !.project_id = 1])
    \/ \E t \in TaskIds : ReqStartProgress("u1", t)
    \/ \E t \in TaskIds : ReqMarkAsDone("u1", t)
    \/ \E t \in TaskIds, data \in ClockPatchData : ReqTaskUpdate("u1", t, data, TRUE)

SpecTaskClock == Init /\ [][NextTaskClock]_vars

\* C28: the update time of a done task is the time it was done: a request
\* that leaves a done task done leaves its updated_at as it was, and the task
\* in the week and the month it had.
C28_DoneTimeKept ==
    [][\A t \in DOMAIN tasks \cap DOMAIN tasks' :
          (tasks[t].status = "DONE" /\ tasks'[t].status = "DONE")
          => /\ tasks'[t].updated_at = tasks[t].updated_at
             /\ TruncWeek(tasks'[t].updated_at) = TruncWeek(tasks[t].updated_at)
             /\ TruncMonth(tasks'[t].updated_at) = TruncMonth(tasks[t].updated_at)]_vars

----------------------------------------------------------------------------
(* The owner's lead membership (SpecTeamMember).                             *)

\* Membership m is that of its team's owner, with role lead, and the team has
\* no other membership with role lead.
LastOwnerLead(m) ==
    /\ members[m].user = teams[members[m].team].owner
    /\ members[m].role = "lead"
    /\ \A k \in DOMAIN members \ {m} :
          members[k].team = members[m].team => members[k].role # "lead"

\* C29: a team that is created has the creator as its owner, and the one
\* membership created with it is the creator's, in that team, with role lead;
\* the delete of a membership of a team, asked for by the team's owner, is
\* answered 400 and removes nothing if the membership is the owner's, has role
\* lead and is the team's only lead, and otherwise is answered 204 and removes
\* that membership and nothing else.
C29_OwnerLead ==
    [][/\ (response'.op = "team.create" /\ response'.code = 201)
          => /\ teams' = teams @@ (nextId.team :> teams'[nextId.team])
             /\ nextId.team \notin DOMAIN teams
             /\ teams'[nextId.team].owner = response'.actor
             /\ members' = members @@
                  (nextId.member :>
                     [user |-> response'.actor, team |-> nextId.team, role |-> "lead"])
             /\ nextId.member \notin DOMAIN members
       /\ (/\ response'.op = "member.destroy"
           /\ response'.team \in DOMAIN teams
           /\ response'.id \in TeamMemberQueryset(response'.team)
           /\ response'.actor = teams[response'.team].owner)
          => IF LastOwnerLead(response'.id)
             THEN response'.code = 400 /\ db' = db
             ELSE /\ response'.code = 204
                  /\ members' = Without(members, {response'.id})
                  /\ teams' = teams
      ]_vars

\* C29's case: the owner of a team with a second member, who is no lead, was
\* refused the delete of the owner's own membership.
C29_Witness ==
    /\ response.op = "member.destroy"
    /\ response.code = 400
    /\ response.id \in DOMAIN members
    /\ members[response.id].user = response.actor
    /\ members[response.id].role = "lead"
    /\ \E k \in DOMAIN members \ {response.id} : members[k].team = members[response.id].team

----------------------------------------------------------------------------
(* The user of a work log: two users who record work on one task, each       *)
(* naming nobody, themselves or the other as user_id.                        *)

LogUsers == {"u2", "u3"}

\* The payloads of a work log on task 1, with each user_id.
LogUserData(hours) ==
    {[NoWorkLogData EXCEPT !.user_id = u, !.task_id = 1, !.hours_spent = hours]
       : u \in LogUsers \cup {OmitUser}}

NextWorkLogUser ==
    \/ ReqProjectCreate("u1", NoProjectData)
    \/ ReqTaskCreate("u1", [NoTaskData EXCEPT !.name = "a", !.project_id = 1])
    \/ \E actor \in LogUsers, data \in LogUserData(1) : ReqWorkLogCreate(actor, data)
    \/ \E actor \in LogUsers, w \in WorkLogIds, data \in LogUserData(2) :
          ReqWorkLogUpdate(actor, w, data, FALSE)
    \/ \E actor \in LogUsers, w \in WorkLogIds, data \in LogUserData(Omit) :
          ReqWorkLogUpdate(actor, w, data, TRUE)
    \/ \E actor \in LogUsers, w \in WorkLogIds : ReqWorkLogDestroy(actor, w)

SpecWorkLogUser == Init /\ [][NextWorkLogUser]_vars

\* C30: a work log that is created has the acting user as its user, whatever
\* user_id the payload gives, and no step changes the user of a work log that
\* exists before and after it.
C30_WorkLogUserKept ==
    [][/\ \A w \in DOMAIN worklogs' \ DOMAIN worklogs :
             /\ response'.op = "worklog.create"
             /\ worklogs'[w].user = response'.actor
       /\ \A w \in DOMAIN worklogs \cap DOMAIN worklogs' :
             worklogs'[w].user = worklogs[w].user
      ]_vars

====
